---- MODULE Spec2Model ----
(***************************************************************************)
(* A model of the agent-orchestration core of EchoMind-Backend:            *)
(*   app/agents/memory.py     memory access policy and manager             *)
(*   app/agents/protocol.py   message envelope                             *)
(*   app/agents/switching.py  switching engine                             *)
(*   app/agents/context.py    context window manager                       *)
(*   app/security/rate_limiter.py    rate limiter                          *)
(*   app/security/api_keys.py        API key store                         *)
(*   app/security/authentication.py  API key validation                    *)
(* Each component has its own variables and its own specification; a       *)
(* component's specification leaves the other components' variables at     *)
(* their initial values.                                                   *)
(***************************************************************************)
EXTENDS Integers, Sequences, FiniteSets, TLC

VARIABLES
    polPc,          \* "idle" | "done": position of a check_access call
    polAgent,       \* agent_name argument of the call
    polCategory,    \* memory_category argument of the call
    polOperation,   \* operation argument of the call
    polLevel,       \* what get_agent_access_level returned inside the call
    polGranted,     \* what check_access returned
    msgPc,          \* "idle" | "done": position of a create_message call
    msgType,        \* message_type argument of the call
    msgKwargs,      \* the keyword arguments of the call (a dict)
    msgOutcome,     \* "none" | "returned" | "raised"
    msgResult,      \* the AgentMessage returned (NoMessage otherwise)
    memPc,          \* "idle" | "awaiting" | "done": position of handle_memory_request
    memRequest,     \* the message as it was passed to handle_memory_request
    memContent,     \* the content object of that message as it is now
    memFilters,     \* the filters object the handler works on
    memOutcome,     \* "none" | "response" | "raised"
    memResponse,    \* the message returned (NoMessage otherwise)
    memHandler,     \* "none" | "read" | "write" | "update" | "delete": handler entered
    memQuery,       \* the storage query awaited (NoQuery otherwise)
    storLogs,       \* storage: timestamps of the user's summary logs with a tone
    storSnapshot,   \* storage: the latest memory snapshot of (user, agent)
    swPc,           \* "idle" | "done": position of an evaluate_switch call
    swCurrent,      \* current_agent argument of the call
    swEmotional,    \* emotional_state argument of the call
    swTopics,       \* topics argument of the call
    swCaps,         \* capabilities_needed argument of the call
    swResult,       \* what evaluate_switch returned, with its locals
    ctxArgs,        \* the arguments ContextWindowManager was constructed with
    ctxManager,     \* the ContextWindowManager: its fields after __init__
    ctxPc,          \* "idle" | "done": position of a fit_to_context_window call
    ctxMessages,    \* messages argument of the call
    ctxInclude,     \* include_system_prompt argument of the call
    ctxImportant,   \* important_indices argument of the call
    ctxResult,      \* what fit_to_context_window returned, with its locals
    priPc,          \* "idle" | "done": position of a prioritize_context call
    priItems,       \* context_items argument of the call
    priMax,         \* max_tokens argument of the call (None or an int)
    priFn,          \* prioritization_fn argument of the call ("none" | "priority")
    priResult,      \* what prioritize_context returned, with its locals
    rlLimiter,      \* the RateLimiter: limit and window_seconds
    rlRequests,     \* its requests dict: client_key -> list of <<timestamp, count>>
    rlNow,          \* what time.time() returns now
    rlResult,       \* what the last is_allowed call returned, with its client_key
    rlAllowed,      \* history: client_key -> time -> calls answered allowed then
    keyStore,       \* ApiKeyStore._keys: the entries <<key, key_data>> in insertion order
    keyNow,         \* what datetime.utcnow() returns now, in days
    keyResult,      \* the last call on the store: its function, argument and outcome
    concPolicies,   \* MemoryAccessPolicy.DEFAULT_POLICIES as it is now
    concScopes,     \* MemoryAccessPolicy.DEFAULT_SCOPES as it is now
    concCalls       \* the handle_memory_request calls in flight on one manager

polVars == <<polPc, polAgent, polCategory, polOperation, polLevel, polGranted>>

msgVars == <<msgPc, msgType, msgKwargs, msgOutcome, msgResult>>

memVars ==
    <<memPc, memRequest, memContent, memFilters, memOutcome, memResponse,
      memHandler, memQuery, storLogs, storSnapshot>>

swVars == <<swPc, swCurrent, swEmotional, swTopics, swCaps, swResult>>

ctxVars ==
    <<ctxArgs, ctxManager, ctxPc, ctxMessages, ctxInclude, ctxImportant, ctxResult>>

priVars == <<priPc, priItems, priMax, priFn, priResult>>

rlVars == <<rlLimiter, rlRequests, rlNow, rlResult, rlAllowed>>

keyVars == <<keyStore, keyNow, keyResult>>

concVars == <<concPolicies, concScopes, concCalls>>

vars ==
    <<polVars, msgVars, memVars, swVars, ctxVars, priVars, rlVars, keyVars,
      concVars>>

\* What the actions of one component leave alone: the other components.
polOthers ==
    <<msgVars, memVars, swVars, ctxVars, priVars, rlVars, keyVars,
      concVars>>

msgOthers ==
    <<polVars, memVars, swVars, ctxVars, priVars, rlVars, keyVars,
      concVars>>

memOthers ==
    <<polVars, msgVars, swVars, ctxVars, priVars, rlVars, keyVars,
      concVars>>

swOthers ==
    <<polVars, msgVars, memVars, ctxVars, priVars, rlVars, keyVars,
      concVars>>

ctxOthers ==
    <<polVars, msgVars, memVars, swVars, priVars, rlVars, keyVars,
      concVars>>

priOthers ==
    <<polVars, msgVars, memVars, swVars, rlVars, keyVars,
      concVars>>

rlOthers ==
    <<polVars, msgVars, memVars, swVars, ctxVars, priVars, keyVars,
      concVars>>

keyOthers ==
    <<polVars, msgVars, memVars, swVars, ctxVars, priVars, rlVars, concVars>>

concOthers ==
    <<polVars, msgVars, memVars, swVars, ctxVars, priVars, rlVars, keyVars>>

(***************************************************************************)
(* Python helpers.                                                         *)
(***************************************************************************)

\* A Python value of the kinds the model passes where the code takes "Any":
\* None, a str (v holds its text) and a non-zero int (a value that is truthy
\* and is no str).
PyNone == [t |-> "none", v |-> ""]

PyStr(s) == [t |-> "str", v |-> s]

PyInt == [t |-> "int", v |-> ""]

\* bool(x)
Truthy(x) ==
    CASE x.t = "none" -> FALSE
      [] x.t = "str" -> x.v /= ""
      [] OTHER -> TRUE

\* dict.get(key, default)
DictGet(d, k, default) == IF k \in DOMAIN d THEN d[k] ELSE default

\* the empty dict {}
EmptyDict == <<>>

\* str.lower() on the strings the model feeds to it: every string other than
\* the ones listed holds no upper-case letter and is returned as it is.
Lower(s) ==
    CASE s = "READ" -> "read"
      [] s = "Read" -> "read"
      [] s = "Delete" -> "delete"
      [] s = "WRITE" -> "write"
      [] s = "Emotional" -> "emotional"
      [] s = "GENERAL" -> "general"
      [] s = "Health" -> "health"
      [] OTHER -> s

(***************************************************************************)
(* app/agents/memory.py: MemoryAccessLevel, MemoryCategory, MemoryScope    *)
(* and the tables of MemoryAccessPolicy.  The enums are str enums: a       *)
(* member equals, and hashes as, its string value.                         *)
(***************************************************************************)

MemoryAccessLevel == {"none", "read", "write", "admin"}

MemoryCategory ==
    {"general", "emotional", "personal", "medical", "therapeutic", "system", "session"}

MemoryScope == {"current_session", "recent", "historical", "all"}

DEFAULT_POLICIES ==
    ("EchoMind" :>
        [general |-> "write", emotional |-> "write", personal |-> "read",
         medical |-> "none", therapeutic |-> "read", system |-> "read",
         session |-> "write"])
    @@ ("Therapist" :>
        [general |-> "write", emotional |-> "write", personal |-> "read",
         medical |-> "read", therapeutic |-> "write", system |-> "read",
         session |-> "write"])
    @@ ("Bridge" :>
        [general |-> "read", emotional |-> "read", personal |-> "read",
         medical |-> "none", therapeutic |-> "none", system |-> "read",
         session |-> "write"])
    @@ ("MemoryService" :>
        [general |-> "admin", emotional |-> "admin", personal |-> "admin",
         medical |-> "admin", therapeutic |-> "admin", system |-> "admin",
         session |-> "admin"])
    @@ ("*" :>
        [general |-> "read", emotional |-> "read", personal |-> "none",
         medical |-> "none", therapeutic |-> "none", system |-> "read",
         session |-> "write"])

DEFAULT_SCOPES ==
    ("EchoMind" :> "all") @@ ("Therapist" :> "all") @@ ("Bridge" :> "recent")
    @@ ("MemoryService" :> "all") @@ ("*" :> "current_session")

\* A lookup that forgets the "*" fallback: an unlisted agent gets the empty
\* policy.
get_agent_access_level_nofallback(agent_name, memory_category) ==
    LET agent_policy == DictGet(DEFAULT_POLICIES, agent_name, EmptyDict)
    IN  DictGet(agent_policy, memory_category, "none")

get_agent_access_level(agent_name, memory_category) ==
    LET agent_policy ==
            DictGet(DEFAULT_POLICIES, agent_name,
                    DictGet(DEFAULT_POLICIES, "*", EmptyDict))
    IN  DictGet(agent_policy, memory_category, "none")

get_agent_scope(agent_name) ==
    DictGet(DEFAULT_SCOPES, agent_name,
            DictGet(DEFAULT_SCOPES, "*", "current_session"))

\* A table in which write and update ask for exactly the write level.
required_levels_exact ==
    [read |-> {"read", "write", "admin"},
     write |-> {"write"},
     update |-> {"write"},
     delete |-> {"admin"}]

\* A table in which delete is open to the write level too.
required_levels_open_delete ==
    [read |-> {"read", "write", "admin"},
     write |-> {"write", "admin"},
     update |-> {"write", "admin"},
     delete |-> {"write", "admin"}]

required_levels ==
    [read |-> {"read", "write", "admin"},
     write |-> {"write", "admin"},
     update |-> {"write", "admin"},
     delete |-> {"admin"}]

\* operation is a str here; the manager's call with another value is
\* modelled where the manager makes it.
check_access(agent_name, memory_category, operation) ==
    LET access_level == get_agent_access_level(agent_name, memory_category)
    IN  access_level \in DictGet(required_levels, Lower(operation), {"admin"})

(***************************************************************************)
(* The policy engine called on its own.                                    *)
(***************************************************************************)

\* Agents: the four listed ones and two the tables do not list.
PolicyAgents == {"EchoMind", "Therapist", "Bridge", "MemoryService", "Coach", "Guest"}

\* Categories: the enum's members and one value no table holds.
PolicyCategories == MemoryCategory \cup {"archive"}

PolicyOperations ==
    {"read", "write", "update", "delete", "READ", "Delete", "purge", ""}

PolicyInit ==
    /\ polPc = "idle"
    /\ polAgent = ""
    /\ polCategory = ""
    /\ polOperation = ""
    /\ polLevel = "none"
    /\ polGranted = FALSE

\* One call of MemoryAccessPolicy.check_access.
PolicyCheck ==
    /\ polPc = "idle"
    /\ \E a \in PolicyAgents, c \in PolicyCategories, op \in PolicyOperations :
        /\ polAgent' = a
        /\ polCategory' = c
        /\ polOperation' = op
        /\ polLevel' = get_agent_access_level(a, c)
        /\ polGranted' = check_access(a, c, op)
    /\ polPc' = "done"
    /\ UNCHANGED polOthers

\* The caller takes the result.
PolicyReturn ==
    /\ polPc = "done"
    /\ polPc' = "idle"
    /\ polAgent' = ""
    /\ polCategory' = ""
    /\ polOperation' = ""
    /\ polLevel' = "none"
    /\ polGranted' = FALSE
    /\ UNCHANGED polOthers

PolicyNext == PolicyCheck \/ PolicyReturn


(***************************************************************************)
(* app/agents/protocol.py: the message envelope.  A message of the model   *)
(* holds the fields the modelled code reads or sets; timestamp, session    *)
(* id, user id and ttl are passed through untouched and are left out.      *)
(***************************************************************************)

MessageType ==
    {"query", "response", "handoff", "memory_access", "system", "user", "assistant"}

MessagePriority == {"low", "normal", "high", "urgent"}

NoMessage ==
    [id |-> "", type |-> "", sender |-> "", recipient |-> "", content |-> <<>>,
     request_id |-> PyNone, priority |-> "", requires_response |-> FALSE]

\* The identifier create_message generates: f"msg_{uuid4()}".
GeneratedId == "msg_uuid4"

\* pydantic's validation of AgentMessage(**fields): id is a required str,
\* type and priority must be values of their enums, request_id is
\* Optional[str].
AgentMessageValid(message_type, kwargs) ==
    /\ message_type \in MessageType
    /\ "id" \in DOMAIN kwargs => kwargs["id"].t = "str"
    /\ "request_id" \in DOMAIN kwargs => kwargs["request_id"].t \in {"str", "none"}
    /\ "priority" \in DOMAIN kwargs =>
            /\ kwargs["priority"].t = "str"
            /\ kwargs["priority"].v \in MessagePriority

\* line 217: 'request_id' not in kwargs and message_type == RESPONSE
request_id_missing(message_type, kwargs) ==
    /\ "request_id" \notin DOMAIN kwargs
    /\ message_type = "response"

\* create_message: [raised, msg].
create_message(message_type, sender, recipient, content, kwargs) ==
    LET kw == IF "id" \in DOMAIN kwargs
              THEN kwargs
              ELSE kwargs @@ ("id" :> PyStr(GeneratedId))
    IN  IF request_id_missing(message_type, kw)
        THEN [raised |-> TRUE, msg |-> NoMessage]
        ELSE IF ~AgentMessageValid(message_type, kw)
        THEN [raised |-> TRUE, msg |-> NoMessage]
        ELSE [raised |-> FALSE,
              msg |-> [id |-> kw["id"].v,
                       type |-> message_type,
                       sender |-> sender,
                       recipient |-> recipient,
                       content |-> content,
                       request_id |-> DictGet(kw, "request_id", PyNone),
                       priority |-> DictGet(kw, "priority", PyStr("normal")).v,
                       requires_response |-> "requires_response" \in DOMAIN kw]]

(***************************************************************************)
(* create_message called on its own.                                       *)
(***************************************************************************)

\* The message types a caller passes: the enum's values and one that is not.
MsgTypes == MessageType \cup {"bogus"}

\* The keyword arguments a caller passes: each key left out or given one of
\* the listed values.
MsgKwargsSet ==
    LET ids == {PyStr("m1"), PyNone}
        rids == {PyStr("req1"), PyNone}
        prios == {PyStr("high"), PyStr("loud")}
        Opt(k, vals) == {EmptyDict} \cup {k :> x : x \in vals}
    IN  {a @@ b @@ c @@ d :
            a \in Opt("id", ids), b \in Opt("request_id", rids),
            c \in Opt("priority", prios),
            d \in Opt("requires_response", {PyStr("True")})}

MessageInit ==
    /\ msgPc = "idle"
    /\ msgType = ""
    /\ msgKwargs = EmptyDict
    /\ msgOutcome = "none"
    /\ msgResult = NoMessage

\* One call of create_message.
CreateMessage ==
    /\ msgPc = "idle"
    /\ \E ty \in MsgTypes, kw \in MsgKwargsSet :
        LET r == create_message(ty, "A", "B", EmptyDict, kw)
        IN  /\ msgType' = ty
            /\ msgKwargs' = kw
            /\ msgOutcome' = IF r.raised THEN "raised" ELSE "returned"
            /\ msgResult' = r.msg
    /\ msgPc' = "done"
    /\ UNCHANGED msgOthers

\* The caller takes the result.
MessageReturn ==
    /\ msgPc = "done"
    /\ msgPc' = "idle"
    /\ msgType' = ""
    /\ msgKwargs' = EmptyDict
    /\ msgOutcome' = "none"
    /\ msgResult' = NoMessage
    /\ UNCHANGED msgOthers

MessageNext == CreateMessage \/ MessageReturn


(***************************************************************************)
(* Character strings.  A string whose characters the code inspects (a      *)
(* path it splits, a text it searches) is a sequence of one-character      *)
(* strings.                                                                *)
(***************************************************************************)

\* a in b, for two strings
IsSubstring(a, b) ==
    \E i \in 0..(Len(b) - Len(a)) : SubSeq(b, i + 1, i + Len(a)) = a

\* The position of the first sep in s, 0 when there is none.
FirstIndexOf(s, sep) ==
    IF \E i \in 1..Len(s) : s[i] = sep
    THEN CHOOSE i \in 1..Len(s) :
            s[i] = sep /\ \A j \in 1..(i - 1) : s[j] /= sep
    ELSE 0

RECURSIVE Split(_, _)
\* s.split(sep), sep one character
Split(s, sep) ==
    LET i == FirstIndexOf(s, sep)
    IN  IF i = 0
        THEN <<s>>
        ELSE <<SubSeq(s, 1, i - 1)>> \o Split(SubSeq(s, i + 1, Len(s)), sep)

\* The path literals of the read handlers.
Str_all == <<"a", "l", "l">>

Str_recent == <<"r", "e", "c", "e", "n", "t">>

Str_history == <<"h", "i", "s", "t", "o", "r", "y">>

Str_recent_emotional_tone ==
    Str_recent \o <<".">> \o
    <<"e", "m", "o", "t", "i", "o", "n", "a", "l", "_", "t", "o", "n", "e">>

\* A path value: None, a str (v holds its characters) or a non-zero int.
PathNone == [t |-> "none", v |-> <<>>]

PathStr(s) == [t |-> "str", v |-> s]

PathInt == [t |-> "int", v |-> <<>>]

\* bool(path)
PathTruthy(x) ==
    CASE x.t = "none" -> FALSE
      [] x.t = "str" -> x.v /= <<>>
      [] OTHER -> TRUE

(***************************************************************************)
(* Time.  An instant is a number of hours relative to the moment of the    *)
(* call, which is instant 0; stored records carry instants =< 0.           *)
(***************************************************************************)

\* datetime.utcnow() during a call
utcnow == 0

\* timedelta(hours=24), in hours
CurrentSessionHours == 24

\* timedelta(days=30), in days
RecentDays == 30

\* timedelta(days=365), in days
HistoricalDays == 365

\* A filter value: an ISO-8601 text of instant n ("iso"), another text
\* ("text") or an int n ("int").
FilterIso(n) == [t |-> "iso", n |-> n]

FilterText == [t |-> "text", n |-> 0]

FilterInt(n) == [t |-> "int", n |-> n]

\* datetime.isoformat()
isoformat(instant) == FilterIso(instant)

\* datetime.fromisoformat(x): [raised, at]
fromisoformat(x) ==
    IF x.t = "iso"
    THEN [raised |-> FALSE, at |-> x.n]
    ELSE [raised |-> TRUE, at |-> 0]

\* int(x): [raised, n]
py_int(x) ==
    IF x.t = "int"
    THEN [raised |-> FALSE, n |-> x.n]
    ELSE [raised |-> TRUE, n |-> 0]

\* get_scope_time_filter: [some, at]; some is FALSE for the None result.
get_scope_time_filter(agent_name) ==
    LET scope == get_agent_scope(agent_name)
        now == utcnow
    IN  IF scope = "current_session"
        THEN [some |-> TRUE, at |-> now - CurrentSessionHours]
        ELSE IF scope = "recent"
        THEN [some |-> TRUE, at |-> now - RecentDays * 24]
        ELSE IF scope = "historical"
        THEN [some |-> TRUE, at |-> now - HistoricalDays * 24]
        ELSE [some |-> FALSE, at |-> 0]

(***************************************************************************)
(* JSON values, as json.loads returns them.                                *)
(***************************************************************************)

JNull == [k |-> "null", d |-> <<>>, s |-> <<>>, l |-> <<>>]

JNum == [k |-> "num", d |-> <<>>, s |-> <<>>, l |-> <<>>]

\* a str of characters s
JStr(s) == [k |-> "str", d |-> <<>>, s |-> s, l |-> <<>>]

\* a list of strs
JList(l) == [k |-> "list", d |-> <<>>, s |-> <<>>, l |-> l]

\* a dict: d maps keys (strs) to JSON values
JDict(d) == [k |-> "dict", d |-> d, s |-> <<>>, l |-> <<>>]

\* summary_text: a text that parses to doc, or one that does not parse
TextOf(doc) == [parses |-> TRUE, doc |-> doc]

TextGarbage == [parses |-> FALSE, doc |-> JNull]

\* json.loads(text): [raised, value]
json_loads(text) ==
    IF text.parses
    THEN [raised |-> FALSE, value |-> text.doc]
    ELSE [raised |-> TRUE, value |-> JNull]

\* "part in current": [raised, holds]; a number or None is no container
Contains(current, part) ==
    CASE current.k = "dict" -> [raised |-> FALSE, holds |-> part \in DOMAIN current.d]
      [] current.k = "str" -> [raised |-> FALSE, holds |-> IsSubstring(part, current.s)]
      [] current.k = "list" ->
            [raised |-> FALSE, holds |-> \E i \in 1..Len(current.l) : current.l[i] = part]
      [] OTHER -> [raised |-> TRUE, holds |-> FALSE]

RECURSIVE Traverse(_, _)
\* lines 540-545: the walk along parts; [raised, value].  current[part]
\* with a str key raises TypeError on a str and on a list.
Traverse(current, parts) ==
    IF parts = <<>>
    THEN [raised |-> FALSE, value |-> current]
    ELSE LET part == Head(parts)
             isin == Contains(current, part)
         IN  IF isin.raised
             THEN [raised |-> TRUE, value |-> JNull]
             ELSE IF ~isin.holds
             THEN [raised |-> FALSE, value |-> JNull]
             ELSE IF current.k /= "dict"
             THEN [raised |-> TRUE, value |-> JNull]
             ELSE Traverse(current.d[part], Tail(parts))

(***************************************************************************)
(* The storage collaborator: app/models.py and the two queries of the      *)
(* read handlers.                                                          *)
(***************************************************************************)

\* The columns of the mapped class SummaryLog (its own and its mixins').
SummaryLogColumns ==
    {"id", "summary_text", "tags", "emotional_tone", "confidence",
     "related_session_id", "user_id", "agent", "created_at", "updated_at"}

\* The columns of the mapped class MemorySnapshot.
MemorySnapshotColumns ==
    {"id", "summary_text", "memory_type", "is_shared", "version",
     "user_id", "agent", "created_at", "updated_at"}

NoSnapshot == [exists |-> FALSE, updated_at |-> 0, summary_text |-> TextGarbage]

Snapshot(at, text) == [exists |-> TRUE, updated_at |-> at, summary_text |-> text]

RECURSIVE SortedDesc(_)
\* order_by(timestamp.desc()) over a set of instants
SortedDesc(S) ==
    IF S = {}
    THEN <<>>
    ELSE LET m == CHOOSE x \in S : \A y \in S : y <= x
         IN  <<m>> \o SortedDesc(S \ {m})

\* .limit(n)
Limit(seq, n) == SubSeq(seq, 1, IF Len(seq) < n THEN Len(seq) ELSE n)

\* The default limit of the emotional query.
DefaultLimit == 10

\* lines 457-471: the rows the emotional query returns, most recent first;
\* a row is named by its timestamp.
emotional_query(logs, has_since, since, limit) ==
    Limit(SortedDesc({x \in logs : has_since => x >= since}), limit)

(***************************************************************************)
(* app/agents/memory.py: MemoryAccessManager.                              *)
(***************************************************************************)

\* A value of content.get(key): the key left out ("absent") reads as None.
Absent == [t |-> "absent", v |-> ""]

PathAbsent == [t |-> "absent", v |-> <<>>]

\* content["filters"]: left out, None, or a dict d of filter values.
FiltersAbsent == [t |-> "absent", d |-> <<>>]

FiltersNone == [t |-> "none", d |-> <<>>]

FiltersDict(d) == [t |-> "dict", d |-> d]

\* The result a handler returns: kind says which, sources holds the
\* timestamps of the stored records it was read from.
NoResult == [kind |-> "none", json |-> JNull, rows |-> <<>>, sources |-> {}]

ResultOf(kind, json, rows, sources) ==
    [kind |-> kind, json |-> json, rows |-> rows, sources |-> sources]

NoQuery == [kind |-> "none", has_since |-> FALSE, since |-> 0, limit |-> 0]

type_map ==
    [general |-> "general", emotional |-> "emotional",
     emotional_state |-> "emotional", personal |-> "personal",
     profile |-> "personal", medical |-> "medical", health |-> "medical",
     therapeutic |-> "therapeutic", therapy |-> "therapeutic",
     system |-> "system", session |-> "session", conversation |-> "session"]

\* _map_memory_type_to_category on a str: [raised, category]
map_memory_type_to_category(memory_type) ==
    LET key == Lower(memory_type)
    IN  IF key \in DOMAIN type_map
        THEN [raised |-> FALSE, category |-> type_map[key]]
        ELSE [raised |-> TRUE, category |-> ""]

\* What one stretch of the handler (up to an await, or to its end) leaves:
\*   pc        "done" | "awaiting"
\*   outcome   "none" | "response" | "raised"
\*   response  the message returned
\*   handler   the handler that was entered ("none" when none was)
\*   filters   the filters object after the stretch
\*   query     the storage query awaited
Step(pc, outcome, response, handler, filters, query) ==
    [pc |-> pc, outcome |-> outcome, response |-> response,
     handler |-> handler, filters |-> filters, query |-> query]

\* An exception leaves handle_memory_request.
Raise(handler, filters) ==
    Step("done", "raised", NoMessage, handler, filters, NoQuery)

\* return create_message(RESPONSE, "MemoryService", ..., request_id=message.id)
Respond(message, content, handler, filters) ==
    LET r == create_message("response", "MemoryService", message.sender,
                            content, "request_id" :> PyStr(message.id))
    IN  IF r.raised
        THEN Raise(handler, filters)
        ELSE Step("done", "response", r.msg, handler, filters, NoQuery)

\* _create_error_response
create_error_response(message, error_message, handler, filters) ==
    Respond(message,
            [status |-> "error", error |-> error_message, result |-> NoResult],
            handler, filters)

\* lines 305-317: the success response
create_success_response(message, result, handler, filters) ==
    Respond(message,
            [status |-> "success", error |-> "", result |-> result],
            handler, filters)

\* lines 319-336: except Exception
handler_error(message, handler, filters) ==
    create_error_response(message, "Error handling memory request", handler, filters)

\* A check that turns every request away.
access_denied_always(sender, memory_category, operation) == TRUE

\* A check that lets every request through.
access_denied_never(sender, memory_category, operation) == FALSE

\* line 260: not MemoryAccessPolicy.check_access(...)
access_denied(sender, memory_category, operation) ==
    ~check_access(sender, memory_category, operation)

\* A default that replaces the "since" the caller supplied.
apply_scope_filter_always(agent, filters) ==
    LET time_filter == get_scope_time_filter(agent)
    IN  IF ~time_filter.some
        THEN [raised |-> FALSE, filters |-> filters]
        ELSE IF filters.t = "none"
        THEN [raised |-> TRUE, filters |-> filters]
        ELSE [raised |-> FALSE,
              filters |-> FiltersDict(("since" :> isoformat(time_filter.at))
                                      @@ filters.d)]

\* lines 419-421: the filters object after the scope default is applied;
\* [raised, filters].  "since" not in None raises TypeError.
apply_scope_filter(agent, filters) ==
    LET time_filter == get_scope_time_filter(agent)
    IN  IF ~time_filter.some
        THEN [raised |-> FALSE, filters |-> filters]
        ELSE IF filters.t = "none"
        THEN [raised |-> TRUE, filters |-> filters]
        ELSE IF "since" \in DOMAIN filters.d
        THEN [raised |-> FALSE, filters |-> filters]
        ELSE [raised |-> FALSE,
              filters |-> FiltersDict(filters.d @@
                                      ("since" :> isoformat(time_filter.at)))]

\* lines 451-468: _read_emotional_memory up to db.execute; [raised, query]
emotional_prepare(filters) ==
    IF filters.t = "none"
    THEN [raised |-> TRUE, query |-> NoQuery]
    ELSE LET has_since == "since" \in DOMAIN filters.d
             since == IF has_since
                      THEN fromisoformat(filters.d["since"])
                      ELSE [raised |-> FALSE, at |-> 0]
             has_limit == "limit" \in DOMAIN filters.d
             limit == IF has_limit
                      THEN py_int(filters.d["limit"])
                      ELSE [raised |-> FALSE, n |-> DefaultLimit]
         IN  IF since.raised
             THEN [raised |-> TRUE, query |-> NoQuery]
             ELSE IF ~({"user_id", "emotional_tone", "timestamp"}
                            \subseteq SummaryLogColumns)
             THEN [raised |-> TRUE, query |-> NoQuery]
             ELSE IF limit.raised
             THEN [raised |-> TRUE, query |-> NoQuery]
             ELSE [raised |-> FALSE,
                   query |-> [kind |-> "emotional", has_since |-> has_since,
                              since |-> since.at, limit |-> limit.n]]

\* lines 516-519: _read_general_memory up to db.execute; [raised, query]
general_prepare ==
    IF ~({"user_id", "agent", "updated_at"} \subseteq MemorySnapshotColumns)
    THEN [raised |-> TRUE, query |-> NoQuery]
    ELSE [raised |-> FALSE,
          query |-> [kind |-> "general", has_since |-> FALSE, since |-> 0,
                     limit |-> 1]]

\* lines 568-576 and 599-604: the placeholder reads
read_session_memory == ResultOf("session_stub", JNull, <<>>, {})

read_generic_memory == ResultOf("generic_stub", JNull, <<>>, {})

\* lines 640-644, 680-684, 717-721: the placeholder write, update, delete
write_status == ResultOf("write_status", JNull, <<>>, {})

\* lines 418-432: _handle_read up to its first await, inside the try of
\* handle_memory_request
handle_read_start(message, memory_type, filters0) ==
    LET scoped == apply_scope_filter(message.sender, filters0)
        filters == scoped.filters
    IN  IF scoped.raised
        THEN handler_error(message, "read", filters)
        ELSE IF memory_type \in {"emotional", "emotional_state"}
        THEN LET p == emotional_prepare(filters)
             IN  IF p.raised
                 THEN handler_error(message, "read", filters)
                 ELSE Step("awaiting", "none", NoMessage, "read", filters, p.query)
        ELSE IF memory_type = "general"
        THEN LET p == general_prepare
             IN  IF p.raised
                 THEN handler_error(message, "read", filters)
                 ELSE Step("awaiting", "none", NoMessage, "read", filters, p.query)
        ELSE IF memory_type \in {"session", "conversation"}
        THEN create_success_response(message, read_session_memory, "read", filters)
        ELSE create_success_response(message, read_generic_memory, "read", filters)

\* lines 226-303: handle_memory_request up to its first await
handle_memory_request_start(message) ==
    LET memory_request == message.content
        Get(x, none) == IF x.t = "absent" THEN none ELSE x
        operation == Get(memory_request.operation, PyNone)
        memory_type == Get(memory_request.memory_type, PyNone)
        path == Get(memory_request.path, PathNone)
        given == memory_request.filters
        \* memory_request.get("filters", {})
        filters0 == IF given.t = "absent" THEN FiltersDict(EmptyDict) ELSE given
    IN  IF message.type /= "memory_access"
        THEN Raise("none", given)
        ELSE IF ~(Truthy(operation) /\ Truthy(memory_type) /\ PathTruthy(path))
        THEN create_error_response(message, "missing required fields", "none", given)
        \* memory_type.lower() on a value that is no str: AttributeError
        ELSE IF memory_type.t /= "str"
        THEN Raise("none", given)
        ELSE LET mapped == map_memory_type_to_category(memory_type.v)
             IN  IF mapped.raised
                 THEN create_error_response(message, "Unknown memory type", "none", given)
                 \* operation.lower() on a value that is no str: AttributeError
                 ELSE IF operation.t /= "str"
                 THEN Raise("none", given)
                 ELSE IF access_denied(message.sender, mapped.category, operation.v)
                 THEN create_error_response(message, "Access denied", "none", given)
                 ELSE IF operation.v = "read"
                 THEN handle_read_start(message, memory_type.v, filters0)
                 ELSE IF operation.v \in {"write", "update", "delete"}
                 THEN create_success_response(message, write_status, operation.v, given)
                 ELSE create_error_response(message, "Invalid operation", "none", given)

\* lines 473-494: _read_emotional_memory after db.execute
emotional_result(rows, path) ==
    IF path = PathStr(Str_recent)
    THEN IF rows /= <<>>
         THEN ResultOf("row", JNull, <<rows[1]>>, {rows[1]})
         ELSE ResultOf("null", JNull, <<>>, {})
    ELSE IF path = PathStr(Str_history)
    THEN ResultOf("rows", JNull, rows, {rows[i] : i \in 1..Len(rows)})
    ELSE IF path = PathStr(Str_recent_emotional_tone) /\ rows /= <<>>
    THEN ResultOf("tone", JNull, <<rows[1]>>, {rows[1]})
    ELSE ResultOf("rows", JNull, rows, {rows[i] : i \in 1..Len(rows)})

\* lines 522-547: _read_general_memory after db.execute; [raised, result].
\* The except clause catches JSONDecodeError, AttributeError and KeyError;
\* the TypeError of the walk is not among them.
general_result(snapshot, path) ==
    IF ~snapshot.exists
    THEN [raised |-> FALSE, result |-> ResultOf("null", JNull, <<>>, {})]
    ELSE IF path = PathStr(Str_all)
    THEN [raised |-> FALSE,
          result |-> ResultOf("text", JNull, <<>>, {snapshot.updated_at})]
    ELSE LET loaded == json_loads(snapshot.summary_text)
         IN  IF loaded.raised
             THEN [raised |-> FALSE, result |-> ResultOf("null", JNull, <<>>, {})]
             \* path.split on a value that is no str: AttributeError, caught
             ELSE IF path.t /= "str"
             THEN [raised |-> FALSE, result |-> ResultOf("null", JNull, <<>>, {})]
             ELSE LET walked == Traverse(loaded.value, Split(path.v, "."))
                  IN  IF walked.raised
                      THEN [raised |-> TRUE, result |-> NoResult]
                      ELSE IF walked.value = JNull
                      THEN [raised |-> FALSE,
                            result |-> ResultOf("null", JNull, <<>>, {})]
                      ELSE [raised |-> FALSE,
                            result |-> ResultOf("json", walked.value, <<>>,
                                                {snapshot.updated_at})]

\* handle_memory_request from the reply of db.execute to its end
handle_memory_request_finish(message, filters, query, ok, logs, snapshot) ==
    LET path == IF message.content.path.t = "absent"
                THEN PathNone ELSE message.content.path
    IN  IF ~ok
        THEN handler_error(message, "read", filters)
        ELSE IF query.kind = "emotional"
        THEN create_success_response(
                message,
                emotional_result(
                    emotional_query(logs, query.has_since, query.since, query.limit),
                    path),
                "read", filters)
        ELSE LET g == general_result(snapshot, path)
             IN  IF g.raised
                 THEN handler_error(message, "read", filters)
                 ELSE create_success_response(message, g.result, "read", filters)

(***************************************************************************)
(* The memory access manager serving requests.                             *)
(***************************************************************************)

\* Senders: three listed agents (scopes all, recent, all) and one the
\* tables do not list (scope current_session).
MemSenders == {"EchoMind", "Bridge", "MemoryService", "Guest"}

MemOperations ==
    {Absent, PyInt, PyStr("read"), PyStr("write"), PyStr("update"),
     PyStr("delete"), PyStr("READ"), PyStr("purge")}

MemMemoryTypes ==
    {Absent, PyInt, PyStr("general"), PyStr("emotional"), PyStr("session"),
     PyStr("medical"), PyStr("Emotional"), PyStr("unknown_type")}

MemPaths ==
    {PathAbsent, PathInt, PathStr(Str_all), PathStr(Str_recent),
     PathStr(<<"a">>), PathStr(<<"a", ".", "b">>)}

\* Instants of stored records: an hour, six weeks and a year and ten days
\* before the call.
StoredInstants == {-1, -1000, -9000}

MemFilters ==
    {FiltersAbsent, FiltersNone, FiltersDict(EmptyDict),
     FiltersDict("since" :> FilterIso(-9000)),
     FiltersDict("since" :> FilterText),
     FiltersDict("limit" :> FilterInt(1))}

RequestMessage(type, sender, operation, memory_type, path, filters) ==
    [id |-> "req1", type |-> type, sender |-> sender,
     content |-> [operation |-> operation, memory_type |-> memory_type,
                  path |-> path, filters |-> filters]]

\* protocol.create_memory_request: the memory_access message of the
\* arguments; filters is None when the caller gives none.
create_memory_request(sender, operation, memory_type, path, filters) ==
    RequestMessage("memory_access", sender, PyStr(operation), PyStr(memory_type),
                   PathStr(path), filters)

\* The messages handed to handle_memory_request: memory_access messages of
\* every content, and messages of two other types.
MemRequests ==
    {RequestMessage("memory_access", s, op, mt, p, f) :
        s \in MemSenders, op \in MemOperations, mt \in MemMemoryTypes,
        p \in MemPaths, f \in MemFilters}
    \cup
    {RequestMessage(ty, s, op, PyStr("general"), PathStr(Str_all), FiltersAbsent) :
        ty \in {"query", "response"}, s \in MemSenders,
        op \in {Absent, PyStr("read")}}

NoRequest ==
    RequestMessage("", "", Absent, Absent, PathAbsent, FiltersAbsent)

\* The snapshot texts in storage.
StoredTexts ==
    {TextOf(JDict(<<"a">> :> JDict(<<"b">> :> JStr(<<"x">>)))),
     TextOf(JDict(<<"a">> :> JNum)),
     TextOf(JDict(<<"a">> :> JList(<<<<"b">>>>))),
     TextGarbage}

StoredSnapshots ==
    {NoSnapshot} \cup {Snapshot(at, text) : at \in {-1, -1000}, text \in StoredTexts}

StoredLogs == {{}, StoredInstants}

MemoryInit ==
    /\ memPc = "idle"
    /\ memRequest = NoRequest
    /\ memContent = NoRequest.content
    /\ memFilters = FiltersAbsent
    /\ memOutcome = "none"
    /\ memResponse = NoMessage
    /\ memHandler = "none"
    /\ memQuery = NoQuery
    /\ storLogs \in StoredLogs
    /\ storSnapshot \in StoredSnapshots

\* What a stretch of the handler leaves in the state.  The handler's filters
\* object is the request's own when the request holds a dict: what the
\* handler stores in it is stored in the request's content.
MemApply(message, step) ==
    /\ memPc' = step.pc
    /\ memOutcome' = step.outcome
    /\ memResponse' = step.response
    /\ memHandler' = step.handler
    /\ memFilters' = step.filters
    /\ memQuery' = step.query
    /\ memContent' = IF message.content.filters.t = "dict"
                     THEN [message.content EXCEPT !.filters = step.filters]
                     ELSE message.content

\* handle_memory_request is called and runs to its first await or its end.
MemReceive ==
    /\ memPc = "idle"
    /\ \E message \in MemRequests :
        /\ memRequest' = message
        /\ MemApply(message, handle_memory_request_start(message))
    /\ UNCHANGED <<storLogs, storSnapshot>>
    /\ UNCHANGED memOthers

\* db.execute returns its rows and the handler runs to its end.
MemStorageReturns ==
    /\ memPc = "awaiting"
    /\ MemApply([memRequest EXCEPT !.content = memContent],
                handle_memory_request_finish(memRequest, memFilters, memQuery,
                                             TRUE, storLogs, storSnapshot))
    /\ UNCHANGED <<memRequest, storLogs, storSnapshot>>
    /\ UNCHANGED memOthers

\* db.execute raises and the handler runs to its end.
MemStorageFails ==
    /\ memPc = "awaiting"
    /\ MemApply([memRequest EXCEPT !.content = memContent],
                handle_memory_request_finish(memRequest, memFilters, memQuery,
                                             FALSE, storLogs, storSnapshot))
    /\ UNCHANGED <<memRequest, storLogs, storSnapshot>>
    /\ UNCHANGED memOthers

\* The caller takes the outcome.
MemReturn ==
    /\ memPc = "done"
    /\ memPc' = "idle"
    /\ memRequest' = NoRequest
    /\ memContent' = NoRequest.content
    /\ memFilters' = FiltersAbsent
    /\ memOutcome' = "none"
    /\ memResponse' = NoMessage
    /\ memHandler' = "none"
    /\ memQuery' = NoQuery
    /\ UNCHANGED <<storLogs, storSnapshot>>
    /\ UNCHANGED memOthers

MemoryNext == MemReceive \/ MemStorageReturns \/ MemStorageFails \/ MemReturn


(***************************************************************************)
(* app/agents/switching.py: SwitchingRules and SwitchingEngine.  An        *)
(* intensity is a number of hundredths (0.7 is 70).  A dict whose          *)
(* iteration order the code relies on is a sequence of <<key, value>>      *)
(* pairs in insertion order.                                               *)
(***************************************************************************)

\* The lower-case letter of each upper-case letter.
UpperToLower ==
    [A |-> "a", B |-> "b", C |-> "c", D |-> "d", E |-> "e",
     F |-> "f", G |-> "g", H |-> "h", I |-> "i", J |-> "j",
     K |-> "k", L |-> "l", M |-> "m", N |-> "n", O |-> "o",
     P |-> "p", Q |-> "q", R |-> "r", S |-> "s", T |-> "t",
     U |-> "u", V |-> "v", W |-> "w", X |-> "x", Y |-> "y",
     Z |-> "z"]

\* str.lower() on a string of characters
LowerSeq(s) ==
    [i \in 1..Len(s) |->
        IF s[i] \in DOMAIN UpperToLower THEN UpperToLower[s[i]] ELSE s[i]]

EMOTIONAL_THRESHOLDS ==
    [distress |-> 70, anxiety |-> 70, anger |-> 80, confusion |-> 60,
     joy |-> 90, grief |-> 60]

TOPIC_SPECIALIZATION ==
    <<<<<<"p", "a", "r", "e", "n", "t", "i", "n", "g">>,
        <<"Parent", "Family">>>>,
      <<<<"r", "e", "l", "a", "t", "i", "o", "n", "s", "h", "i", "p", "s">>,
        <<"Elora", "Bridge">>>>,
      <<<<"e", "m", "o", "t", "i", "o", "n", "a", "l", "_", "s", "u", "p", "p", "o", "r", "t">>,
        <<"Mirror", "Therapist">>>>,
      <<<<"c", "o", "a", "c", "h", "i", "n", "g">>,
        <<"Coach", "Mentor">>>>,
      <<<<"g", "o", "a", "l", "_", "s", "e", "t", "t", "i", "n", "g">>,
        <<"Coach", "Achiever">>>>,
      <<<<"t", "r", "a", "u", "m", "a">>,
        <<"Therapist", "Healer">>>>,
      <<<<"c", "o", "n", "f", "l", "i", "c", "t">>,
        <<"Mediator", "Bridge">>>>,
      <<<<"c", "o", "m", "m", "u", "n", "i", "c", "a", "t", "i", "o", "n">>,
        <<"Bridge", "Communicator">>>>,
      <<<<"t", "e", "c", "h", "n", "i", "c", "a", "l">>,
        <<"Technical", "Expert">>>>>>

AGENT_CAPABILITIES ==
    <<<<"EchoMind", <<"emotional_support", "cognitive_reframing">>>>,
      <<"Therapist", <<"therapy", "emotional_support", "cognitive_reframing">>>>,
      <<"Coach", <<"coaching", "goal_setting">>>>,
      <<"Parent", <<"parenting_advice">>>>,
      <<"Bridge", <<"bridging", "conflict_resolution">>>>,
      <<"Friend", <<"friendship", "emotional_support">>>>>>

emotion_map ==
    [distress |-> "Therapist", anxiety |-> "Therapist", anger |-> "Mediator",
     confusion |-> "Teacher", joy |-> "Friend", grief |-> "Therapist"]

\* A rule that asks for an intensity above the threshold.
get_best_agent_for_emotion_above(emotion, intensity) ==
    IF emotion \notin DOMAIN EMOTIONAL_THRESHOLDS
    THEN PyNone
    ELSE IF intensity <= EMOTIONAL_THRESHOLDS[emotion]
    THEN PyNone
    ELSE IF emotion \in DOMAIN emotion_map
    THEN PyStr(emotion_map[emotion])
    ELSE PyNone

\* get_best_agent_for_emotion: the agent, or None
get_best_agent_for_emotion(emotion, intensity) ==
    IF emotion \notin DOMAIN EMOTIONAL_THRESHOLDS
    THEN PyNone
    ELSE IF intensity < EMOTIONAL_THRESHOLDS[emotion]
    THEN PyNone
    ELSE IF emotion \in DOMAIN emotion_map
    THEN PyStr(emotion_map[emotion])
    ELSE PyNone

RECURSIVE best_agent_for_topic_from(_, _)
\* the loop of get_best_agent_for_topic from row i of the table on
best_agent_for_topic_from(topic, i) ==
    IF i > Len(TOPIC_SPECIALIZATION)
    THEN PyNone
    ELSE LET area == TOPIC_SPECIALIZATION[i][1]
             agents == TOPIC_SPECIALIZATION[i][2]
         IN  IF \/ IsSubstring(LowerSeq(topic), LowerSeq(area))
                \/ IsSubstring(LowerSeq(area), LowerSeq(topic))
             THEN PyStr(agents[1])
             ELSE best_agent_for_topic_from(topic, i + 1)

\* get_best_agent_for_topic: the agent, or None
get_best_agent_for_topic(topic) == best_agent_for_topic_from(topic, 1)

\* get_agents_with_capability: the agents, in the order of the table
get_agents_with_capability(capability) ==
    LET Has(i) == \E j \in 1..Len(AGENT_CAPABILITIES[i][2]) :
                        AGENT_CAPABILITIES[i][2][j] = capability
    IN  SelectSeq([i \in 1..Len(AGENT_CAPABILITIES) |->
                        IF Has(i) THEN AGENT_CAPABILITIES[i][1] ELSE ""],
                  LAMBDA a : a /= "")

RECURSIVE first_secondary_agent(_, _)
\* lines 136-148: the scan of the (emotion, intensity) pairs of the
\* secondary dicts, in order
first_secondary_agent(pairs, i) ==
    IF i > Len(pairs)
    THEN PyNone
    ELSE LET secondary_agent ==
                get_best_agent_for_emotion(pairs[i][1], pairs[i][2])
         IN  IF Truthy(secondary_agent)
             THEN secondary_agent
             ELSE first_secondary_agent(pairs, i + 1)

RECURSIVE Flatten(_)
\* the items of the dicts of a list, in iteration order
Flatten(dicts) ==
    IF dicts = <<>> THEN <<>> ELSE Head(dicts) \o Flatten(Tail(dicts))

\* evaluate_emotional_state: the agent, or None
evaluate_emotional_state(emotional_state) ==
    LET recommended_agent ==
            get_best_agent_for_emotion(emotional_state.primary,
                                       emotional_state.intensity)
    IN  IF Truthy(recommended_agent)
        THEN recommended_agent
        ELSE first_secondary_agent(Flatten(emotional_state.secondary), 1)

RECURSIVE evaluate_topic_from(_, _)
\* evaluate_topic: the agent of the first topic that has one, or None
evaluate_topic_from(topics, i) ==
    IF i > Len(topics)
    THEN PyNone
    ELSE LET recommended_agent == get_best_agent_for_topic(topics[i])
         IN  IF Truthy(recommended_agent)
             THEN recommended_agent
             ELSE evaluate_topic_from(topics, i + 1)

evaluate_topic(topics) == evaluate_topic_from(topics, 1)

\* lines 192-194: one more capability counted for agent, in the tally dict
Tally(tally, agent) ==
    IF \E k \in 1..Len(tally) : tally[k][1] = agent
    THEN [k \in 1..Len(tally) |->
            IF tally[k][1] = agent THEN <<agent, tally[k][2] + 1>> ELSE tally[k]]
    ELSE Append(tally, <<agent, 1>>)

RECURSIVE TallyAgents(_, _)
TallyAgents(tally, agents) ==
    IF agents = <<>>
    THEN tally
    ELSE TallyAgents(Tally(tally, Head(agents)), Tail(agents))

RECURSIVE agents_with_capabilities(_, _)
\* lines 187-194: the tally dict after the capabilities from i on
agents_with_capabilities(tally, capabilities_needed) ==
    IF capabilities_needed = <<>>
    THEN tally
    ELSE agents_with_capabilities(
            TallyAgents(tally, get_agents_with_capability(Head(capabilities_needed))),
            Tail(capabilities_needed))

\* max(items, key=count): the first item, in iteration order, of the
\* highest count
MaxByCount(tally) ==
    LET k == CHOOSE k \in 1..Len(tally) :
                /\ \A j \in 1..Len(tally) : tally[j][2] <= tally[k][2]
                /\ \A j \in 1..(k - 1) : tally[j][2] < tally[k][2]
    IN  tally[k]

\* evaluate_capabilities_needed: the agent, or None
evaluate_capabilities_needed(capabilities_needed) ==
    LET tally == agents_with_capabilities(<<>>, capabilities_needed)
    IN  IF tally = <<>>
        THEN PyNone
        ELSE LET best == MaxByCount(tally)
             IN  \* count >= len(capabilities_needed) / 2
                 IF 2 * best[2] >= Len(capabilities_needed)
                 THEN PyStr(best[1])
                 ELSE PyNone

\* A test that takes every recommendation, the current agent included.
accept_any(agent, current_agent) == Truthy(agent)

\* lines 244, 251, 258: "agent and agent != current_agent"
accept(agent, current_agent) == Truthy(agent) /\ agent.v /= current_agent

\* No emotional state is given (the argument is None).
NoEmotionalState ==
    [given |-> FALSE, primary |-> "", intensity |-> 0, secondary |-> <<>>]

EmotionalState(primary, intensity, secondary) ==
    [given |-> TRUE, primary |-> primary, intensity |-> intensity,
     secondary |-> secondary]

\* evaluate_switch.  The result holds should_switch, recommended_agent and
\* reason (the step the reason text names), and the values of the locals
\* emotional_agent, topic_agent and capability_agent with whether their
\* step was run.  A list argument that is None takes the branch of the
\* empty list.
evaluate_switch(current_agent, emotional_state, topics, capabilities_needed) ==
    LET emotional_run == emotional_state.given
        emotional_agent == IF emotional_run
                           THEN evaluate_emotional_state(emotional_state)
                           ELSE PyNone
        after_emotional == IF emotional_run /\ accept(emotional_agent, current_agent)
                           THEN [agent |-> emotional_agent, reason |-> PyStr("emotional")]
                           ELSE [agent |-> PyNone, reason |-> PyNone]
        topic_run == topics /= <<>> /\ ~Truthy(after_emotional.agent)
        topic_agent == IF topic_run THEN evaluate_topic(topics) ELSE PyNone
        after_topic == IF topic_run /\ accept(topic_agent, current_agent)
                       THEN [agent |-> topic_agent, reason |-> PyStr("topic")]
                       ELSE after_emotional
        capability_run == capabilities_needed /= <<>> /\ ~Truthy(after_topic.agent)
        capability_agent == IF capability_run
                            THEN evaluate_capabilities_needed(capabilities_needed)
                            ELSE PyNone
        after_capability == IF capability_run /\ accept(capability_agent, current_agent)
                            THEN [agent |-> capability_agent, reason |-> PyStr("capability")]
                            ELSE after_topic
    IN  [should_switch |-> after_capability.agent /= PyNone,
         recommended_agent |-> after_capability.agent,
         reason |-> after_capability.reason,
         emotional_run |-> emotional_run,
         emotional_agent |-> emotional_agent,
         topic_run |-> topic_run,
         topic_agent |-> topic_agent,
         capability_run |-> capability_run,
         capability_agent |-> capability_agent]

(***************************************************************************)
(* evaluate_switch called on its own.                                      *)
(***************************************************************************)

\* The longest list of secondary emotions, of topics and of capabilities.
MaxSecondary == 2

MaxTopics == 1

MaxCaps == 2

\* The sequences over S of length at most n.
SeqUpTo(S, n) == UNION {[1..k -> S] : k \in 0..n}

SwAgents == {"EchoMind", "Therapist", "Coach"}

\* Primary emotions: distress below, at and above its threshold, joy at
\* its threshold, and an emotion the table does not hold.
SwPrimaries ==
    {<<"distress", 65>>, <<"distress", 70>>, <<"distress", 75>>,
     <<"joy", 90>>, <<"calm", 99>>}

\* Secondary dicts: one-entry dicts at and below a threshold, and a dict
\* of two entries.
SwSecondaryDicts ==
    {<<<<"joy", 90>>>>, <<<<"joy", 50>>>>,
     <<<<"anger", 80>>, <<"distress", 70>>>>}

SwEmotionalStates ==
    {NoEmotionalState} \cup
    {EmotionalState(p[1], p[2], s) :
        p \in SwPrimaries, s \in SeqUpTo(SwSecondaryDicts, MaxSecondary)}

\* Topics: "Trauma", "goal" and "weather".
SwTopics ==
    {<<"T", "r", "a", "u", "m", "a">>,
     <<"g", "o", "a", "l">>,
     <<"w", "e", "a", "t", "h", "e", "r">>}

SwCapabilities == {"therapy", "coaching", "emotional_support"}

NoSwitchResult ==
    [should_switch |-> FALSE, recommended_agent |-> PyNone, reason |-> PyNone,
     emotional_run |-> FALSE, emotional_agent |-> PyNone,
     topic_run |-> FALSE, topic_agent |-> PyNone,
     capability_run |-> FALSE, capability_agent |-> PyNone]

SwitchInit ==
    /\ swPc = "idle"
    /\ swCurrent = ""
    /\ swEmotional = NoEmotionalState
    /\ swTopics = <<>>
    /\ swCaps = <<>>
    /\ swResult = NoSwitchResult

\* One call of SwitchingEngine.evaluate_switch.
EvaluateSwitch ==
    /\ swPc = "idle"
    /\ \E current_agent \in SwAgents, emotional_state \in SwEmotionalStates,
          topics \in SeqUpTo(SwTopics, MaxTopics),
          capabilities_needed \in SeqUpTo(SwCapabilities, MaxCaps) :
        /\ swCurrent' = current_agent
        /\ swEmotional' = emotional_state
        /\ swTopics' = topics
        /\ swCaps' = capabilities_needed
        /\ swResult' = evaluate_switch(current_agent, emotional_state, topics,
                                       capabilities_needed)
    /\ swPc' = "done"
    /\ UNCHANGED swOthers

\* The caller takes the result.
SwitchReturn ==
    /\ swPc = "done"
    /\ swPc' = "idle"
    /\ swCurrent' = ""
    /\ swEmotional' = NoEmotionalState
    /\ swTopics' = <<>>
    /\ swCaps' = <<>>
    /\ swResult' = NoSwitchResult
    /\ UNCHANGED swOthers

SwitchNext == EvaluateSwitch \/ SwitchReturn

(***************************************************************************)
(* app/agents/context.py: TokenCounter and ContextWindowManager.  A text   *)
(* is a sequence of one-character strings; a message is a record of the    *)
(* texts of its role, content and name, the empty text standing for a key  *)
(* that is left out.                                                       *)
(***************************************************************************)

TOKEN_LIMITS ==
    ("gpt-3.5-turbo" :> 4096) @@ ("gpt-3.5-turbo-16k" :> 16384) @@
    ("gpt-4" :> 8192) @@ ("gpt-4-32k" :> 32768) @@ ("gpt-4-0613" :> 8192) @@
    ("gpt-4-0125-preview" :> 128000) @@ ("claude-2" :> 100000) @@
    ("claude-instant" :> 100000)

DEFAULT_TOKEN_LIMIT == 4096

\* The characters the pattern \w matches.
WordChars ==
    DOMAIN UpperToLower \cup {UpperToLower[c] : c \in DOMAIN UpperToLower}
        \cup {"0", "1", "2", "3", "4", "5", "6", "7", "8", "9", "_"}

\* The characters the pattern \s matches.
SpaceChars == {" ", "\t", "\n", "\r"}

\* The elements of a set of numbers, in increasing order.
Ascending(S) == [k \in 1..Cardinality(S) |->
                    CHOOSE x \in S : Cardinality({y \in S : y < x}) = k - 1]

\* TokenCounter.estimate_tokens: int(words * 0.75 + punctuation +
\* whitespace * 0.25), the three counts being the matches of \b\w+\b (the
\* maximal runs of word characters), of [^\w\s] and of \s+ (the maximal
\* runs of whitespace).
estimate_tokens(text) ==
    LET n == Len(text)
        words == Cardinality({i \in 1..n :
                    /\ text[i] \in WordChars
                    /\ (i = 1 \/ text[i - 1] \notin WordChars)})
        punctuation == Cardinality({i \in 1..n :
                    text[i] \notin WordChars /\ text[i] \notin SpaceChars})
        whitespace == Cardinality({i \in 1..n :
                    /\ text[i] \in SpaceChars
                    /\ (i = 1 \/ text[i - 1] \notin SpaceChars)})
    IN  IF text = <<>>
        THEN 0
        ELSE (3 * words + 4 * punctuation + whitespace) \div 4

RECURSIVE estimate_messages_tokens(_)
\* TokenCounter.estimate_messages_tokens
estimate_messages_tokens(messages) ==
    IF messages = <<>>
    THEN 0
    ELSE LET message == Head(messages)
         IN  4 + estimate_tokens(message.content)
               + (Len(message.role) \div 4)
               + (IF message.name /= <<>> THEN Len(message.name) \div 4 ELSE 0)
               + estimate_messages_tokens(Tail(messages))

\* ContextWindowManager.__init__; max_tokens 0 stands for a max_tokens that
\* is falsy (None or 0).
ContextWindowManager(model_name, max_tokens, buffer_tokens) ==
    LET max == IF max_tokens /= 0
               THEN max_tokens
               ELSE DictGet(TOKEN_LIMITS, model_name, DEFAULT_TOKEN_LIMIT)
    IN  [model_name |-> model_name, max_tokens |-> max,
         buffer_tokens |-> buffer_tokens,
         effective_limit |-> max - buffer_tokens]

\* The string literals of context.py.
ContextText ==
    [system |-> <<"s", "y", "s", "t", "e", "m">>,
     user |-> <<"u", "s", "e", "r">>,
     assistant |-> <<"a", "s", "s", "i", "s", "t", "a", "n", "t">>,
     ellipsis |-> <<".", ".", ".">>,
     role_sep |-> <<":", " ">>,
     covered |-> <<"T", "h", "i", "s", " ", "c", "o", "n", "v", "e", "r", "s", "a", "t", "i", "o", "n", " ", "c", "o", "v", "e", "r", "e", "d", ":", " ">>,
     point_sep |-> <<";", " ">>,
     plus |-> <<" ", "(", "p", "l", "u", "s", " ">>,
     more_messages |-> <<" ", "m", "o", "r", "e", " ", "m", "e", "s", "s", "a", "g", "e", "s", ")">>,
     earlier |-> <<"E", "a", "r", "l", "i", "e", "r", " ", "c", "o", "n", "v", "e", "r", "s", "a", "t", "i", "o", "n", " ", "s", "u", "m", "m", "a", "r", "y", ":", " ">>]

\* A message {"role": role, "content": content} with an optional "name".
Message(role, content, name) == [role |-> role, content |-> content, name |-> name]

RECURSIVE str_of_int(_)
\* str(n), n >= 0
str_of_int(n) ==
    LET digits == <<"0", "1", "2", "3", "4", "5", "6", "7", "8", "9">>
    IN  IF n < 10
        THEN <<digits[n + 1]>>
        ELSE str_of_int(n \div 10) \o <<digits[(n % 10) + 1]>>

RECURSIVE join(_, _)
\* sep.join(texts)
join(sep, texts) ==
    IF texts = <<>> THEN <<>>
    ELSE IF Len(texts) = 1 THEN texts[1]
    ELSE texts[1] \o sep \o join(sep, Tail(texts))

\* ContextWindowManager._create_history_summary
create_history_summary(messages) ==
    LET kept == SelectSeq(messages, LAMBDA m : m.role /= ContextText.system)
        snippet(content) == IF Len(content) > 100
                            THEN SubSeq(content, 1, 100) \o ContextText.ellipsis
                            ELSE content
        points == [k \in 1..Len(kept) |->
                    kept[k].role \o ContextText.role_sep \o snippet(kept[k].content)]
        first3 == SubSeq(points, 1, IF Len(points) < 3 THEN Len(points) ELSE 3)
    IN  ContextText.covered \o join(ContextText.point_sep, first3)
            \o (IF Len(points) > 3
                THEN ContextText.plus \o str_of_int(Len(points) - 3)
                        \o ContextText.more_messages
                ELSE <<>>)

RECURSIVE interleave(_, _)
\* lines 224-236: the messages of two lists taken in turn, the first list
\* first, until both are used up
interleave(a, b) ==
    IF a = <<>> THEN b
    ELSE IF b = <<>> THEN a
    ELSE <<Head(a), Head(b)>> \o interleave(Tail(a), Tail(b))

RECURSIVE add_while_fits(_, _, _)
\* lines 239-245 and 248-254: the messages of a list added one by one while
\* tokens_used stays within the limit, up to the first that does not fit;
\* [added, tokens_used]
add_while_fits(candidates, tokens_used, effective_limit) ==
    IF candidates = <<>>
    THEN [added |-> <<>>, tokens_used |-> tokens_used]
    ELSE LET message == Head(candidates)
             message_tokens == estimate_tokens(message.content) + 4
         IN  IF tokens_used + message_tokens <= effective_limit
             THEN LET rest == add_while_fits(Tail(candidates),
                                             tokens_used + message_tokens,
                                             effective_limit)
                  IN  [added |-> <<message>> \o rest.added,
                       tokens_used |-> rest.tokens_used]
             ELSE [added |-> <<>>, tokens_used |-> tokens_used]

\* A test that sends every list to the trimming path.
within_limit_never(estimated_tokens, effective_limit) == FALSE

\* line 163: estimated_tokens <= self.effective_limit
within_limit(estimated_tokens, effective_limit) ==
    estimated_tokens <= effective_limit

\* A count that preserves every message.
preserved_count_all(original_order) == Len(original_order)

\* A count that preserves at most three messages.
preserved_count_three(original_order) ==
    IF Len(original_order) < 3 THEN Len(original_order) ELSE 3

\* line 282: min(4, len(original_order))
preserved_count(original_order) ==
    IF Len(original_order) < 4 THEN Len(original_order) ELSE 4

\* ContextWindowManager.fit_to_context_window.  important_indices is a list
\* of 0-based indices; None takes the branches of the empty list.  The
\* result holds the list returned and the values of the locals.
fit_to_context_window(self, messages, include_system_prompt, important_indices) ==
    LET n == Len(messages)
        At(idx) == [k \in 1..Len(idx) |-> messages[idx[k]]]
        reversed(s) == [k \in 1..Len(s) |-> s[Len(s) + 1 - k]]
        estimated_tokens == estimate_messages_tokens(messages)
        important(i) == \E k \in 1..Len(important_indices) :
                            important_indices[k] = i - 1
        of_role(i, roles) == ~important(i) /\ messages[i].role \in roles
        system_messages == At(Ascending({i \in 1..n : of_role(i, {ContextText.system})}))
        user_messages == At(Ascending({i \in 1..n : of_role(i, {ContextText.user})}))
        assistant_messages ==
            At(Ascending({i \in 1..n : of_role(i, {ContextText.assistant})}))
        other_messages ==
            At(Ascending({i \in 1..n :
                ~important(i) /\ messages[i].role \notin
                    {ContextText.system, ContextText.user, ContextText.assistant}}))
        important_messages == At(Ascending({i \in 1..n : important(i)}))
        result == (IF include_system_prompt THEN system_messages ELSE <<>>)
                    \o important_messages
        paired_messages == interleave(reversed(user_messages),
                                      reversed(assistant_messages))
        paired == add_while_fits(paired_messages, estimate_messages_tokens(result),
                                 self.effective_limit)
        others == add_while_fits(other_messages, paired.tokens_used,
                                 self.effective_limit)
        remaining == paired.added \o others.added
        processed_indices ==
            {i \in 1..n : \/ (messages[i].role = ContextText.system
                                /\ include_system_prompt)
                          \/ important(i)}
        original_order ==
            At(Ascending(processed_indices))
            \o At(Ascending({i \in 1..n :
                    /\ i \notin processed_indices
                    /\ \E k \in 1..Len(remaining) : remaining[k] = messages[i]}))
        final_tokens == estimate_messages_tokens(original_order)
        new_messages ==
            SelectSeq(original_order, LAMBDA m : m.role = ContextText.system)
            \o <<Message(ContextText.system,
                         ContextText.earlier \o create_history_summary(original_order),
                         <<>>)>>
            \o SubSeq(original_order,
                      Len(original_order) - preserved_count(original_order) + 1,
                      Len(original_order))
        fast == within_limit(estimated_tokens, self.effective_limit)
        summarized == ~fast /\ final_tokens > self.effective_limit
    IN  [returned |-> IF fast THEN messages
                      ELSE IF summarized THEN new_messages
                      ELSE original_order,
         path |-> IF fast THEN "as_is"
                  ELSE IF summarized THEN "summary" ELSE "trimmed",
         paired_messages |-> IF fast THEN <<>> ELSE paired_messages,
         paired_added |-> IF fast THEN <<>> ELSE paired.added,
         original_order |-> IF fast THEN <<>> ELSE original_order]

(***************************************************************************)
(* fit_to_context_window called on a manager.                              *)
(***************************************************************************)

\* The longest list of messages.
MaxMessages == 5

\* The messages of the lists: a system prompt, a user message of six
\* punctuation marks, a short assistant message, a user message of one
\* word of 101 letters, and a message of another role that carries a name.
CtxMessageValues ==
    {Message(ContextText.system, <<"B", "e", " ", "k", "i", "n", "d", ".">>, <<>>),
     Message(ContextText.user, <<"?", "!", "?", "!", "?", "!">>, <<>>),
     Message(ContextText.assistant, <<"o", "k">>, <<>>),
     Message(ContextText.user, [i \in 1..101 |-> "x"], <<>>),
     Message(<<"t", "o", "o", "l">>, <<"1", " ", "+", " ", "1">>, <<"c", "a", "l", "c">>)}

\* The managers: effective limits 12 and 24.
CtxManagers ==
    {ContextWindowManager("gpt-4", 32, 20), ContextWindowManager("gpt-4", 34, 10)}

\* The int n as an argument that may also be None.
PyIntOf(n) == [t |-> "int", v |-> n]

\* The arguments of a constructor call; max_tokens is None or an int.
CtxArgs(model_name, max_tokens, buffer_tokens) ==
    [model_name |-> model_name, max_tokens |-> max_tokens,
     buffer_tokens |-> buffer_tokens]

\* The manager __init__ leaves behind for the arguments: a max_tokens of
\* None takes the branch of a max_tokens of 0.
Constructed(args) ==
    ContextWindowManager(args.model_name,
                         IF args.max_tokens = PyNone THEN 0 ELSE args.max_tokens.v,
                         args.buffer_tokens)

\* The arguments managers are constructed with: a model of the table or
\* not, no maximum or a small or large one, a buffer below or above it.
CtxArgValues ==
    {CtxArgs(model_name, max_tokens, buffer_tokens) :
        model_name \in {"gpt-4", "gpt-3.5-turbo", "claude-2", "other"},
        max_tokens \in {PyNone} \cup {PyIntOf(n) : n \in {0, 10, 20, 32, 34}},
        buffer_tokens \in {0, 10, 20, 1000, 5000}}

NoFitResult ==
    [returned |-> <<>>, path |-> "none", paired_messages |-> <<>>,
     paired_added |-> <<>>, original_order |-> <<>>]

\* ContextWindowManager(): the manager of the defaults, no call in progress.
ContextInit ==
    /\ ctxArgs = CtxArgs("gpt-4", PyNone, 1000)
    /\ ctxManager = Constructed(ctxArgs)
    /\ ctxPc = "idle"
    /\ ctxMessages = <<>>
    /\ ctxInclude = TRUE
    /\ ctxImportant = <<>>
    /\ ctxResult = NoFitResult

\* One call of fit_to_context_window.
FitToContextWindow ==
    /\ ctxPc = "idle"
    /\ \E messages \in SeqUpTo(CtxMessageValues, MaxMessages),
          include_system_prompt \in BOOLEAN,
          important_indices \in {<<>>, <<0>>, <<1>>} :
        /\ ctxMessages' = messages
        /\ ctxInclude' = include_system_prompt
        /\ ctxImportant' = important_indices
        /\ ctxResult' = fit_to_context_window(ctxManager, messages,
                                              include_system_prompt,
                                              important_indices)
    /\ ctxPc' = "done"
    /\ UNCHANGED <<ctxArgs, ctxManager>>
    /\ UNCHANGED ctxOthers

\* The caller takes the list.
ContextReturn ==
    /\ ctxPc = "done"
    /\ ctxPc' = "idle"
    /\ ctxMessages' = <<>>
    /\ ctxInclude' = TRUE
    /\ ctxImportant' = <<>>
    /\ ctxResult' = NoFitResult
    /\ UNCHANGED <<ctxArgs, ctxManager>>
    /\ UNCHANGED ctxOthers

ContextNext == FitToContextWindow \/ ContextReturn

\* ContextWindowManager(model_name, max_tokens, buffer_tokens): a manager
\* is constructed and takes the place of the one before.
NewContextWindowManager ==
    /\ ctxPc = "idle"
    /\ \E args \in CtxArgValues :
        /\ ctxArgs' = args
        /\ ctxManager' = Constructed(args)
    /\ UNCHANGED <<ctxPc, ctxMessages, ctxInclude, ctxImportant, ctxResult>>
    /\ UNCHANGED ctxOthers

ManagerNext == NewContextWindowManager

(***************************************************************************)
(* ContextWindowManager.prioritize_context.  A context item is a dict with *)
(* the keys "text", "timestamp" (an ISO text, or left out) and "priority"; *)
(* the prioritization function, when one is given, reads "priority".       *)
(***************************************************************************)

\* A context item; timestamp is None when the key is left out.
Item(text, timestamp, priority) ==
    [text |-> text, timestamp |-> timestamp, priority |-> priority]

\* The texts json.dumps writes around the values of an item.
JsonText ==
    [open |-> <<"{", "\"", "t", "e", "x", "t", "\"", ":", " ", "\"">>,
     timestamp |-> <<"\"", ",", " ", "\"", "t", "i", "m", "e", "s", "t", "a", "m", "p", "\"", ":", " ", "\"">>,
     priority |-> <<"\"", ",", " ", "\"", "p", "r", "i", "o", "r", "i", "t", "y", "\"", ":", " ">>,
     close |-> <<"}">>,
     datetime_min |-> <<"0", "0", "0", "1", "-", "0", "1", "-", "0", "1", "T", "0", "0", ":", "0", "0", ":", "0", "0">>]

\* json.dumps(item), keys in insertion order
json_dumps(item) ==
    JsonText.open \o item.text
        \o (IF item.timestamp.t = "none"
            THEN <<>>
            ELSE JsonText.timestamp \o item.timestamp.v)
        \o JsonText.priority \o str_of_int(item.priority) \o JsonText.close

\* ord(c) of the characters of an ISO timestamp
CodePoint ==
    ("-" :> 45) @@ ("0" :> 48) @@ ("1" :> 49) @@ ("2" :> 50) @@ ("3" :> 51) @@
    ("4" :> 52) @@ ("5" :> 53) @@ ("6" :> 54) @@ ("7" :> 55) @@ ("8" :> 56) @@
    ("9" :> 57) @@ (":" :> 58) @@ ("T" :> 84)

RECURSIVE str_lt(_, _)
\* a < b of two str values
str_lt(a, b) ==
    IF b = <<>> THEN FALSE
    ELSE IF a = <<>> THEN TRUE
    ELSE IF Head(a) = Head(b) THEN str_lt(Tail(a), Tail(b))
    ELSE CodePoint[Head(a)] < CodePoint[Head(b)]

\* lines 380-388: the sort key of an item, [priority, timestamp]; without a
\* prioritization function every item has priority 0 here and a missing
\* timestamp is datetime.min.isoformat(), with one it is "".
sort_key(item, prioritization_fn) ==
    IF prioritization_fn = "none"
    THEN [priority |-> 0,
          timestamp |-> IF item.timestamp.t = "none"
                        THEN JsonText.datetime_min ELSE item.timestamp.v]
    ELSE [priority |-> item.priority,
          timestamp |-> IF item.timestamp.t = "none"
                        THEN <<>> ELSE item.timestamp.v]

\* a < b of two sort keys, as tuples are compared
key_lt(a, b) ==
    \/ a.priority < b.priority
    \/ a.priority = b.priority /\ str_lt(a.timestamp, b.timestamp)

\* list.sort(key=..., reverse=True): descending by key, items of equal keys
\* in the order they had
sort_reverse(items, prioritization_fn) ==
    LET key(i) == sort_key(items[i], prioritization_fn)
        before(i) == {j \in 1..Len(items) :
                        \/ key_lt(key(i), key(j))
                        \/ key(j) = key(i) /\ j < i}
    IN  [k \in 1..Len(items) |->
            items[CHOOSE i \in 1..Len(items) : Cardinality(before(i)) = k - 1]]

\* line 359: int(self.effective_limit * 0.3)
default_budget(effective_limit) ==
    IF effective_limit >= 0
    THEN (3 * effective_limit) \div 10
    ELSE 0 - ((3 * (0 - effective_limit)) \div 10)

RECURSIVE select_all_that_fit(_, _, _)
\* A selection that skips what does not fit and goes on.
select_all_that_fit(candidates, tokens_used, max_tokens) ==
    IF candidates = <<>>
    THEN <<>>
    ELSE LET tokens == estimate_tokens(json_dumps(Head(candidates)))
         IN  IF tokens_used + tokens <= max_tokens
             THEN <<Head(candidates)>>
                    \o select_all_that_fit(Tail(candidates), tokens_used + tokens,
                                           max_tokens)
             ELSE select_all_that_fit(Tail(candidates), tokens_used, max_tokens)

RECURSIVE select_while_fits(_, _, _)
\* lines 391-399: the items accepted one by one while tokens_used stays
\* within max_tokens, up to the first that does not fit
select_while_fits(candidates, tokens_used, max_tokens) ==
    IF candidates = <<>>
    THEN <<>>
    ELSE LET tokens == estimate_tokens(json_dumps(Head(candidates)))
         IN  IF tokens_used + tokens <= max_tokens
             THEN <<Head(candidates)>>
                    \o select_while_fits(Tail(candidates), tokens_used + tokens,
                                         max_tokens)
             ELSE <<>>

\* ContextWindowManager.prioritize_context; [returned, max_tokens]
prioritize_context(self, context_items, max_tokens, prioritization_fn) ==
    LET budget == IF max_tokens.t = "none"
                  THEN default_budget(self.effective_limit)
                  ELSE max_tokens.v
    IN  [returned |->
            IF context_items = <<>>
            THEN <<>>
            ELSE select_while_fits(sort_reverse(context_items, prioritization_fn),
                                   0, budget),
         max_tokens |-> budget]

\* The longest list of context items.
MaxItems == 3

\* The items of the lists: short and long texts, timestamps of two days or
\* none, priorities 1 and 2.
PriItemValues ==
    LET hi == <<"h", "i">>
        marks == <<"?", "!", "?", "!", "?", "!", "?", "!">>
        day1 == PyStr(<<"2", "0", "2", "4", "-", "0", "1", "-", "0", "1">>)
        day2 == PyStr(<<"2", "0", "2", "4", "-", "0", "1", "-", "0", "2">>)
    IN  {Item(hi, PyNone, 1), Item(hi, day1, 2), Item(hi, day2, 1),
         Item(marks, day2, 2), Item(marks, PyNone, 2), Item(marks, day1, 1)}

\* The max_tokens arguments: none, and budgets for no, one and a few items.
PriMaxValues == {PyNone, PyIntOf(0), PyIntOf(30), PyIntOf(60)}

NoPriResult == [returned |-> <<>>, max_tokens |-> 0]

\* No call of prioritize_context in progress.
PrioritizeInit ==
    /\ priPc = "idle"
    /\ priItems = <<>>
    /\ priMax = PyNone
    /\ priFn = "none"
    /\ priResult = NoPriResult

\* One call of prioritize_context.
PrioritizeContext ==
    /\ priPc = "idle"
    /\ \E context_items \in SeqUpTo(PriItemValues, MaxItems),
          max_tokens \in PriMaxValues,
          prioritization_fn \in {"none", "priority"} :
        /\ priItems' = context_items
        /\ priMax' = max_tokens
        /\ priFn' = prioritization_fn
        /\ priResult' = prioritize_context(ctxManager, context_items, max_tokens,
                                           prioritization_fn)
    /\ priPc' = "done"
    /\ UNCHANGED ctxVars
    /\ UNCHANGED priOthers

\* The caller takes the list.
PrioritizeReturn ==
    /\ priPc = "done"
    /\ priPc' = "idle"
    /\ priItems' = <<>>
    /\ priMax' = PyNone
    /\ priFn' = "none"
    /\ priResult' = NoPriResult
    /\ UNCHANGED ctxVars
    /\ UNCHANGED priOthers

PrioritizeNext == PrioritizeContext \/ PrioritizeReturn

(***************************************************************************)
(* app/security/rate_limiter.py: RateLimiter.  Times are whole seconds.    *)
(***************************************************************************)

\* RateLimiter.__init__ (the requests dict is the variable rlRequests)
RateLimiter(limit, window_seconds) ==
    [limit |-> limit, window_seconds |-> window_seconds]

\* A cleaning that also drops the entries made exactly window_seconds ago.
clean_old_requests_strict(self, requests, client_key, now) ==
    IF client_key \notin DOMAIN requests
    THEN requests
    ELSE [requests EXCEPT ![client_key] =
            SelectSeq(@, LAMBDA entry : entry[1] > now - self.window_seconds)]

\* RateLimiter._clean_old_requests: the requests dict afterwards
clean_old_requests(self, requests, client_key, now) ==
    IF client_key \notin DOMAIN requests
    THEN requests
    ELSE [requests EXCEPT ![client_key] =
            SelectSeq(@, LAMBDA entry : entry[1] >= now - self.window_seconds)]

RECURSIVE sum_counts(_)
\* sum(count for _, count in entries)
sum_counts(entries) ==
    IF entries = <<>> THEN 0 ELSE Head(entries)[2] + sum_counts(Tail(entries))

\* min(ts for ts, _ in entries)
min_ts(entries) ==
    CHOOSE ts \in {entries[k][1] : k \in 1..Len(entries)} :
        \A k \in 1..Len(entries) : ts <= entries[k][1]

\* RateLimiter.is_allowed at time now: [allowed, info, requests], requests
\* being the dict afterwards
is_allowed(self, requests, client_key, now) ==
    LET cleaned == clean_old_requests(self, requests, client_key, now)
    IN  IF client_key \notin DOMAIN cleaned
        THEN [allowed |-> TRUE,
              info |-> [limit |-> self.limit, remaining |-> self.limit - 1,
                        reset |-> now + self.window_seconds],
              requests |-> cleaned @@ (client_key :> <<<<now, 1>>>>)]
        ELSE LET total_requests == sum_counts(cleaned[client_key])
             IN  IF total_requests >= self.limit
                 THEN [allowed |-> FALSE,
                       info |-> [limit |-> self.limit, remaining |-> 0,
                                 reset |-> min_ts(cleaned[client_key])
                                            + self.window_seconds],
                       requests |-> cleaned]
                 ELSE [allowed |-> TRUE,
                       info |-> [limit |-> self.limit,
                                 remaining |-> self.limit - total_requests - 1,
                                 reset |-> now + self.window_seconds],
                       requests |-> [cleaned EXCEPT ![client_key] =
                                        Append(@, <<now, 1>>)]]

\* The largest limit, the longest window and the last second of the clock.
MaxLimit == 2

MaxWindow == 2

MaxTime == 3

ClientKeys == {"ip:a", "ip:b"}

NoRateResult ==
    [client_key |-> "", allowed |-> FALSE,
     info |-> [limit |-> 0, remaining |-> 0, reset |-> 0]]

\* RateLimiter(limit, window_seconds) with no request seen, at second 0.
RateInit ==
    /\ rlLimiter \in {RateLimiter(limit, window_seconds) :
                        limit \in 1..MaxLimit, window_seconds \in 1..MaxWindow}
    /\ rlRequests = <<>>
    /\ rlNow = 0
    /\ rlResult = NoRateResult
    /\ rlAllowed = [client_key \in ClientKeys |-> [t \in 0..MaxTime |-> 0]]

\* One call of is_allowed.
IsAllowed ==
    /\ \E client_key \in ClientKeys :
        LET r == is_allowed(rlLimiter, rlRequests, client_key, rlNow)
        IN  /\ rlRequests' = r.requests
            /\ rlResult' = [client_key |-> client_key, allowed |-> r.allowed,
                            info |-> r.info]
            /\ rlAllowed' = IF r.allowed
                            THEN [rlAllowed EXCEPT ![client_key][rlNow] = @ + 1]
                            ELSE rlAllowed
    /\ UNCHANGED <<rlLimiter, rlNow>>
    /\ UNCHANGED rlOthers

\* A second passes.
RateTick ==
    /\ rlNow < MaxTime
    /\ rlNow' = rlNow + 1
    /\ UNCHANGED <<rlLimiter, rlRequests, rlResult, rlAllowed>>
    /\ UNCHANGED rlOthers

RateNext == IsAllowed \/ RateTick

(***************************************************************************)
(* app/security/api_keys.py and validate_api_key of                        *)
(* app/security/authentication.py.  The store is the class attribute       *)
(* ApiKeyStore._keys; a date is None, an ISO text or a datetime, of a day. *)
(***************************************************************************)

DateNone == [t |-> "none", day |-> 0]

DateText(day) == [t |-> "str", day |-> day]

DateTime(day) == [t |-> "datetime", day |-> day]

\* key[:6] + "..." + key[-4:]
mask_key(key) ==
    SubSeq(key, 1, IF Len(key) < 6 THEN Len(key) ELSE 6)
        \o <<".", ".", ".">>
        \o SubSeq(key, IF Len(key) < 4 THEN 1 ELSE Len(key) - 3, Len(key))

\* The place of a key in the store, 0 when it is not there.
key_index(store, api_key) ==
    IF \E k \in 1..Len(store) : store[k][1] = api_key
    THEN CHOOSE k \in 1..Len(store) : store[k][1] = api_key
    ELSE 0

\* lines 160-165 and 185-188: expires_at and then created_at, when truthy,
\* replaced by datetime.fromisoformat of it, which raises TypeError for a
\* value that is no str; [raised, key_data], key_data as it is left
convert_dates(key_data) ==
    IF key_data.expires_at.t = "datetime"
    THEN [raised |-> TRUE, key_data |-> key_data]
    ELSE LET first == IF key_data.expires_at.t = "str"
                      THEN [key_data EXCEPT
                                !.expires_at = DateTime(key_data.expires_at.day)]
                      ELSE key_data
         IN  IF first.created_at.t = "datetime"
             THEN [raised |-> TRUE, key_data |-> first]
             ELSE [raised |-> FALSE,
                   key_data |-> IF first.created_at.t = "str"
                                THEN [first EXCEPT
                                        !.created_at = DateTime(first.created_at.day)]
                                ELSE first]

\* generate_api_key for a user that exists; expires_in_days 0 stands for
\* None: the store afterwards
generate_api_key(store, api_key, user_id, scopes, expires_in_days, now) ==
    Append(store,
           <<api_key,
             [key |-> api_key, owner_id |-> user_id, scopes |-> scopes,
              created_at |-> DateText(now), is_active |-> TRUE,
              expires_at |-> IF expires_in_days /= 0
                             THEN DateText(now + expires_in_days)
                             ELSE DateNone]>>)

\* get_api_key_info: [outcome, value, store]; the dict returned is the
\* stored one
get_api_key_info(store, api_key) ==
    LET k == key_index(store, api_key)
    IN  IF k = 0
        THEN [outcome |-> "returned", value |-> <<>>, store |-> store]
        ELSE LET converted == convert_dates(store[k][2])
                 after == [store EXCEPT ![k] = <<api_key, converted.key_data>>]
             IN  IF converted.raised
                 THEN [outcome |-> "raised", value |-> <<>>, store |-> after]
                 ELSE [outcome |-> "returned", value |-> <<converted.key_data>>,
                       store |-> after]

RECURSIVE user_keys_from(_, _, _)
\* lines 184-191: the loop over the user's keys from place k on
user_keys_from(store, user_id, k) ==
    IF k > Len(store)
    THEN [outcome |-> "returned", store |-> store]
    ELSE IF store[k][2].owner_id /= user_id
    THEN user_keys_from(store, user_id, k + 1)
    ELSE LET converted == convert_dates(store[k][2])
         IN  IF converted.raised
             THEN [outcome |-> "raised",
                   store |-> [store EXCEPT ![k][2] = converted.key_data]]
             ELSE user_keys_from(
                    [store EXCEPT ![k][2] =
                        [converted.key_data EXCEPT !.key = mask_key(@)]],
                    user_id, k + 1)

\* get_user_api_keys: [outcome, value, store]
get_user_api_keys(store, user_id) ==
    LET r == user_keys_from(store, user_id, 1)
    IN  [outcome |-> r.outcome,
         value |-> IF r.outcome = "raised" THEN <<>>
                   ELSE SelectSeq([k \in 1..Len(r.store) |-> r.store[k][2]],
                                  LAMBDA key_data : key_data.owner_id = user_id),
         store |-> r.store]

\* revoke_api_key: the store afterwards (update_key writes a copy)
revoke_api_key(store, api_key) ==
    LET k == key_index(store, api_key)
    IN  IF k = 0 THEN store
        ELSE [store EXCEPT ![k][2].is_active = FALSE]

\* authentication.validate_api_key: [outcome, value, store]; value is <<>>
\* for None
validate_api_key(store, api_key, required_scopes, now) ==
    LET info == get_api_key_info(store, api_key)
    IN  IF info.outcome = "raised" \/ info.value = <<>>
        THEN info
        ELSE LET api_key_info == info.value[1]
             IN  IF /\ api_key_info.expires_at.t /= "none"
                    /\ api_key_info.expires_at.day < now
                 THEN [info EXCEPT !.value = <<>>]
                 ELSE IF ~api_key_info.is_active
                 THEN [info EXCEPT !.value = <<>>]
                 ELSE IF ~(required_scopes \subseteq api_key_info.scopes)
                 THEN [info EXCEPT !.value = <<>>]
                 ELSE info

\* The last day of the clock.
MaxDay == 2

\* The keys secrets.token_urlsafe hands out.
ApiKeys == {<<"a", "b", "c", "d", "e", "f", "g", "h", "i", "j", "k", "l">>, <<"m", "n", "o", "p", "q", "r", "s", "t", "u", "v", "w", "x">>}

\* The users: u1 has the role admin, u2 has not.
ApiUsers == {"u1", "u2"}

\* lines 103-107: the scopes of a key made without a scopes argument
default_scopes(user_id) ==
    IF user_id = "u1" THEN {"user", "admin"} ELSE {"user"}

NoKeyResult == [fn |-> "none", api_key |-> <<>>, required_scopes |-> {},
                outcome |-> "none", value |-> <<>>]

\* The empty store.
KeysInit ==
    /\ keyStore = <<>>
    /\ keyNow = 0
    /\ keyResult = NoKeyResult

\* generate_api_key: a key is made and stored.
GenerateApiKey ==
    /\ \E api_key \in ApiKeys, user_id \in ApiUsers, expires_in_days \in {0, 1} :
        /\ key_index(keyStore, api_key) = 0
        /\ keyStore' = generate_api_key(keyStore, api_key, user_id,
                                        default_scopes(user_id),
                                        expires_in_days, keyNow)
        /\ keyResult' = [fn |-> "generate", api_key |-> api_key,
                         required_scopes |-> {}, outcome |-> "returned",
                         value |-> <<>>]
    /\ UNCHANGED keyNow
    /\ UNCHANGED keyOthers

\* One call of get_api_key_info.
GetApiKeyInfo ==
    /\ \E api_key \in ApiKeys :
        LET r == get_api_key_info(keyStore, api_key)
        IN  /\ keyStore' = r.store
            /\ keyResult' = [fn |-> "info", api_key |-> api_key,
                             required_scopes |-> {}, outcome |-> r.outcome,
                             value |-> r.value]
    /\ UNCHANGED keyNow
    /\ UNCHANGED keyOthers

\* One call of get_user_api_keys.
GetUserApiKeys ==
    /\ \E user_id \in ApiUsers :
        LET r == get_user_api_keys(keyStore, user_id)
        IN  /\ keyStore' = r.store
            /\ keyResult' = [fn |-> "list", api_key |-> <<>>,
                             required_scopes |-> {}, outcome |-> r.outcome,
                             value |-> r.value]
    /\ UNCHANGED keyNow
    /\ UNCHANGED keyOthers

\* One call of validate_api_key.
ValidateApiKey ==
    /\ \E api_key \in ApiKeys, required_scopes \in {{}, {"user"}, {"admin"}} :
        LET r == validate_api_key(keyStore, api_key, required_scopes, keyNow)
        IN  /\ keyStore' = r.store
            /\ keyResult' = [fn |-> "validate", api_key |-> api_key,
                             required_scopes |-> required_scopes,
                             outcome |-> r.outcome, value |-> r.value]
    /\ UNCHANGED keyNow
    /\ UNCHANGED keyOthers

\* One call of revoke_api_key.
RevokeApiKey ==
    /\ \E api_key \in ApiKeys :
        /\ keyStore' = revoke_api_key(keyStore, api_key)
        /\ keyResult' = [fn |-> "revoke", api_key |-> api_key,
                         required_scopes |-> {}, outcome |-> "returned",
                         value |-> <<>>]
    /\ UNCHANGED keyNow
    /\ UNCHANGED keyOthers

\* A day passes.
KeysTick ==
    /\ keyNow < MaxDay
    /\ keyNow' = keyNow + 1
    /\ UNCHANGED <<keyStore, keyResult>>
    /\ UNCHANGED keyOthers

KeysNext ==
    \/ GenerateApiKey \/ GetApiKeyInfo \/ GetUserApiKeys \/ ValidateApiKey
    \/ RevokeApiKey \/ KeysTick

(***************************************************************************)
(* Concurrent handle_memory_request calls on one MemoryManager.  The calls *)
(* are coroutines of one event loop: a call runs alone from its start to   *)
(* its first await (db.execute) and from the reply to its end, and other   *)
(* calls run in between.  What the calls share is the class attributes     *)
(* DEFAULT_POLICIES and DEFAULT_SCOPES and the storage.                    *)
(***************************************************************************)

\* lines 138-141 on the table as it is now
get_agent_access_level_in(policies, agent_name, memory_category) ==
    LET agent_policy ==
            DictGet(policies, agent_name, DictGet(policies, "*", EmptyDict))
    IN  DictGet(agent_policy, memory_category, "none")

\* lines 177-185 on the table as it is now
check_access_in(policies, agent_name, memory_category, operation) ==
    get_agent_access_level_in(policies, agent_name, memory_category)
        \in DictGet(required_levels, Lower(operation), {"admin"})

\* A lookup that stores the fallback policy under the name of an agent the
\* table does not list (dict.setdefault).
policies_after_setdefault(policies, agent_name) ==
    IF agent_name \in DOMAIN policies
    THEN policies
    ELSE (agent_name :> DictGet(policies, "*", EmptyDict)) @@ policies

\* line 138: the table after the two dict.get lookups, which store nothing
policies_after_lookup(policies, agent_name) == policies

\* line 154: the table after the two dict.get lookups, which store nothing
scopes_after_lookup(scopes, agent_name) == scopes

\* lines 239-260: the call reaches check_access (the message is a
\* memory_access, the three fields are truthy, memory_type is a str of the
\* alias table and operation is a str).
reaches_check_access(message) ==
    LET c == message.content
    IN  /\ message.type = "memory_access"
        /\ c.operation.t = "str" /\ c.operation.v /= ""
        /\ c.memory_type.t = "str"
        /\ ~map_memory_type_to_category(c.memory_type.v).raised
        /\ c.path.t /= "absent" /\ PathTruthy(c.path)

\* lines 266-303: the dispatch on the operation once access is granted, up
\* to the first await
handle_operation_start(message) ==
    LET c == message.content
        filters0 == IF c.filters.t = "absent" THEN FiltersDict(EmptyDict)
                    ELSE c.filters
    IN  IF c.operation.v = "read"
        THEN handle_read_start(message, c.memory_type.v, filters0)
        ELSE IF c.operation.v \in {"write", "update", "delete"}
        THEN create_success_response(message, write_status, c.operation.v,
                                     c.filters)
        ELSE create_error_response(message, "Invalid operation", "none",
                                   c.filters)

\* lines 226-303 with the policy table read as it is at the call: [granted,
\* step], granted being "none" when check_access is not reached
handle_memory_request_start_in(policies, message) ==
    IF ~reaches_check_access(message)
    THEN [granted |-> "none", step |-> handle_memory_request_start(message)]
    ELSE IF ~check_access_in(
                policies, message.sender,
                map_memory_type_to_category(message.content.memory_type.v).category,
                message.content.operation.v)
    THEN [granted |-> "denied",
          step |-> create_error_response(message, "Access denied", "none",
                                         message.content.filters)]
    ELSE [granted |-> "granted", step |-> handle_operation_start(message)]

\* The calls in flight at once.
MaxCalls == 2

Calls == 1..MaxCalls

\* A call: its position, the message as passed, the message's content as it
\* is now, what check_access answered, and the handler's locals.
Call(pc, request, content, granted, step) ==
    [pc |-> pc, request |-> request, content |-> content,
     granted |-> granted, step |-> step]

NoCall ==
    Call("idle", NoRequest, NoRequest.content, "none",
         Step("idle", "none", NoMessage, "none", FiltersAbsent, NoQuery))

\* The requests of the concurrent calls: a scope-all agent, a scope-recent
\* agent and an unlisted agent; operations granted, denied and unknown; a
\* request with no operation and a message of another type.
ConcRequests ==
    {RequestMessage("memory_access", s, op, mt, PathStr(Str_all), f) :
        s \in {"EchoMind", "Bridge", "Guest"},
        op \in {PyStr("read"), PyStr("write"), PyStr("delete"), PyStr("purge")},
        mt \in {PyStr("general"), PyStr("medical")},
        f \in {FiltersAbsent, FiltersDict(EmptyDict)}}
    \cup
    {RequestMessage("memory_access", "Bridge", Absent, PyStr("general"),
                    PathStr(Str_all), FiltersAbsent),
     RequestMessage("query", "Bridge", PyStr("read"), PyStr("general"),
                    PathStr(Str_all), FiltersAbsent)}

ConcurrentInit ==
    /\ concPolicies = DEFAULT_POLICIES
    /\ concScopes = DEFAULT_SCOPES
    /\ concCalls = [c \in Calls |-> NoCall]

\* The content object of a call after a stretch: a dict passed as filters is
\* the object the handler works on.
content_after(content, step) ==
    IF content.filters.t = "dict"
    THEN [content EXCEPT !.filters = step.filters]
    ELSE content

\* A call of handle_memory_request starts and runs to its first await or its
\* end.
ConcReceive(c) ==
    /\ concCalls[c].pc = "idle"
    /\ \E message \in ConcRequests :
        LET started == handle_memory_request_start_in(concPolicies, message)
        IN  /\ concCalls' =
                [concCalls EXCEPT
                    ![c] = Call(started.step.pc, message,
                                content_after(message.content, started.step),
                                started.granted, started.step)]
            /\ concPolicies' =
                IF started.granted /= "none"
                THEN policies_after_lookup(concPolicies, message.sender)
                ELSE concPolicies
            /\ concScopes' =
                IF started.step.handler = "read"
                THEN scopes_after_lookup(concScopes, message.sender)
                ELSE concScopes
    /\ UNCHANGED concOthers

\* db.execute answers a call (ok) or raises in it, and the call runs to its
\* end.
ConcStorageAnswers(c, ok) ==
    /\ concCalls[c].pc = "awaiting"
    /\ LET call == concCalls[c]
           step == handle_memory_request_finish(
                       call.request, call.step.filters, call.step.query, ok,
                       storLogs, storSnapshot)
       IN  concCalls' =
               [concCalls EXCEPT
                   ![c] = Call(step.pc, call.request,
                               content_after(call.content, step),
                               call.granted, step)]
    /\ UNCHANGED <<concPolicies, concScopes>>
    /\ UNCHANGED concOthers

ConcStorageReturns(c) == ConcStorageAnswers(c, TRUE)

ConcStorageFails(c) == ConcStorageAnswers(c, FALSE)

\* The caller of a call takes its outcome.
ConcReturn(c) ==
    /\ concCalls[c].pc = "done"
    /\ concCalls' = [concCalls EXCEPT ![c] = NoCall]
    /\ UNCHANGED <<concPolicies, concScopes>>
    /\ UNCHANGED concOthers

ConcurrentNext ==
    \E c \in Calls :
        \/ ConcReceive(c)
        \/ ConcStorageReturns(c)
        \/ ConcStorageFails(c)
        \/ ConcReturn(c)

\* A rate limiter no request has reached.
RateQuiet == RateInit /\ rlLimiter = RateLimiter(MaxLimit, MaxWindow)

\* The memory manager idle over an empty storage.
MemoryQuiet == MemoryInit /\ storLogs = {} /\ storSnapshot = NoSnapshot

\* Every component idle; storage empty.
Init ==
    /\ PolicyInit /\ MessageInit /\ MemoryQuiet /\ SwitchInit /\ ContextInit
    /\ PrioritizeInit /\ RateQuiet /\ KeysInit /\ ConcurrentInit

\* Every component idle; storage holds any of the stored records.
InitMemory ==
    /\ PolicyInit /\ MessageInit /\ MemoryInit /\ SwitchInit /\ ContextInit
    /\ PrioritizeInit /\ RateQuiet /\ KeysInit /\ ConcurrentInit

SpecPolicy == Init /\ [][PolicyNext]_vars

SpecMessage == Init /\ [][MessageNext]_vars

SpecMemory == InitMemory /\ [][MemoryNext]_vars

SpecSwitch == Init /\ [][SwitchNext]_vars

\* Every component idle; the manager is one of the small managers.
InitContext ==
    /\ PolicyInit /\ MessageInit /\ MemoryQuiet /\ SwitchInit
    /\ ctxArgs \in CtxArgValues
    /\ ctxManager = Constructed(ctxArgs)
    /\ ctxManager \in CtxManagers
    /\ ctxPc = "idle"
    /\ ctxMessages = <<>>
    /\ ctxInclude = TRUE
    /\ ctxImportant = <<>>
    /\ ctxResult = NoFitResult
    /\ PrioritizeInit /\ RateQuiet /\ KeysInit /\ ConcurrentInit

SpecContext == InitContext /\ [][ContextNext]_vars

SpecManager == Init /\ [][ManagerNext]_vars

SpecPrioritize == InitContext /\ [][PrioritizeNext]_vars

\* Every component idle; the limiter is any of the small limiters.
InitRate ==
    /\ PolicyInit /\ MessageInit /\ MemoryQuiet /\ SwitchInit /\ ContextInit
    /\ PrioritizeInit /\ RateInit /\ KeysInit /\ ConcurrentInit

SpecRate == InitRate /\ [][RateNext]_vars

SpecKeys == Init /\ [][KeysNext]_vars

SpecConcurrent == Init /\ [][ConcurrentNext]_vars

(***************************************************************************)
(* Properties of the policy engine (SpecPolicy).                           *)
(***************************************************************************)

\* The required set as the specification words it, for an operation string
\* taken as it is.
RequiredSetOf(op) ==
    CASE op = "read" -> {"read", "write", "admin"}
      [] op = "write" -> {"write", "admin"}
      [] op = "update" -> {"write", "admin"}
      [] op = "delete" -> {"admin"}
      [] OTHER -> {"admin"}

\* The order none < read < write < admin.
LevelRank(l) ==
    CASE l = "none" -> 0
      [] l = "read" -> 1
      [] l = "write" -> 2
      [] l = "admin" -> 3

\* C5 as stated: check_access grants exactly when the agent's level for the
\* category is in the required set of the operation string, every string
\* other than read, write, update and delete requiring admin.
C5_GrantedIffLevelInRequiredSet ==
    polPc = "done" => (polGranted <=> polLevel \in RequiredSetOf(polOperation))

\* C5 amended: the same with the operation string lower-cased first, so that
\* "READ" and "Delete" are the read and delete operations.
C5_GrantedIffLevelInRequiredSetOfLowercased ==
    polPc = "done" =>
        (polGranted <=> polLevel \in RequiredSetOf(Lower(polOperation)))

\* C5 witness: an upper-case READ by an agent holding the read level is
\* granted.
C5_UppercaseReadGranted ==
    /\ polPc = "done"
    /\ polOperation = "READ"
    /\ polLevel = "read"
    /\ polGranted

\* C6: check_access is monotonic in the level order: when a call is granted,
\* every agent and category holding the same or a higher level is granted
\* the same operation.
C6_CheckAccessMonotonic ==
    (polPc = "done" /\ polGranted) =>
        \A b \in PolicyAgents, c \in PolicyCategories :
            LevelRank(get_agent_access_level(b, c)) >= LevelRank(polLevel)
                => check_access(b, c, polOperation)

\* C6 witness: a write granted at the write level while another agent holds
\* admin on the same category.
C6_WriteGrantedBelowAdmin ==
    /\ polPc = "done"
    /\ polGranted
    /\ polOperation = "write"
    /\ polLevel = "write"
    /\ \E b \in PolicyAgents : get_agent_access_level(b, polCategory) = "admin"

\* C7: get_agent_access_level returns the agent's own table entry when the
\* agent is listed, the "*" entry when it is not, none when the category has
\* no entry; and Bridge may not read medical memory.
C7_AccessLevelLookup ==
    polPc = "done" =>
        /\ (polAgent \in DOMAIN DEFAULT_POLICIES
                /\ polCategory \in DOMAIN DEFAULT_POLICIES[polAgent])
            => polLevel = DEFAULT_POLICIES[polAgent][polCategory]
        /\ (polAgent \notin DOMAIN DEFAULT_POLICIES
                /\ polCategory \in DOMAIN DEFAULT_POLICIES["*"])
            => polLevel = DEFAULT_POLICIES["*"][polCategory]
        /\ polCategory \notin MemoryCategory => polLevel = "none"
        /\ (polAgent = "Bridge" /\ polCategory = "medical"
                /\ polOperation = "read")
            => (polLevel = "none" /\ ~polGranted)

\* C7 witness: an agent the tables do not list gets the "*" entry.
C7_UnlistedAgentGetsWildcard ==
    /\ polPc = "done"
    /\ polAgent = "Guest"
    /\ polCategory = "session"
    /\ polLevel = "write"
    /\ polGranted

(***************************************************************************)
(* Properties of the message envelope (SpecMessage).                       *)
(***************************************************************************)

\* C8 as stated: every response-type message create_message returns carries
\* a request id that is not None.
C8_ResponseCarriesRequestId ==
    (msgOutcome = "returned" /\ msgResult.type = "response")
        => msgResult.request_id.t /= "none"

(***************************************************************************)
(* Properties of the memory access manager (SpecMemory).                   *)
(***************************************************************************)

\* The call of handle_memory_request has ended.
MemDone == memPc = "done"

\* The call ended with a response whose content has the given status.
MemResponded(status) ==
    /\ memOutcome = "response"
    /\ memResponse.type = "response"
    /\ memResponse.content.status = status

\* The request holds the three required fields as strs and its memory type
\* is in the alias table.
MemWellFormed ==
    /\ memRequest.type = "memory_access"
    /\ memRequest.content.operation.t = "str"
    /\ memRequest.content.operation.v /= ""
    /\ memRequest.content.memory_type.t = "str"
    /\ Lower(memRequest.content.memory_type.v) \in DOMAIN type_map
    /\ PathTruthy(memRequest.content.path)
    /\ memRequest.content.path.t /= "absent"

\* check_access for the request's sender, mapped category and operation.
MemAccessGranted ==
    check_access(memRequest.sender,
                 type_map[Lower(memRequest.content.memory_type.v)],
                 memRequest.content.operation.v)

\* C1 as stated: for a message of type memory_access, whatever its content
\* holds and whether storage succeeds or fails, handle_memory_request
\* returns a response and raises nothing.
C1_MemoryAccessNeverRaises ==
    (MemDone /\ memRequest.type = "memory_access")
        => (memOutcome = "response" /\ memResponse.type = "response")

\* C2 as stated: a message whose type is not memory_access gets a
\* status-error response, and nothing is raised.
C2_WrongTypeGetsErrorResponse ==
    (MemDone /\ memRequest.type /= "memory_access") => MemResponded("error")

\* C3: a handler is entered, storage is queried or a success is returned
\* only for a request check_access grants; a request it denies gets the
\* access-denied error response and enters no handler.
C3_HandlerOnlyWhenAccessGranted ==
    /\ (memHandler /= "none" \/ memPc = "awaiting"
            \/ (MemDone /\ MemResponded("success")))
        => (MemWellFormed /\ MemAccessGranted)
    /\ (MemDone /\ MemWellFormed /\ ~MemAccessGranted)
        => /\ MemResponded("error")
           /\ memResponse.content.error = "Access denied"
           /\ memHandler = "none"
           /\ memQuery = NoQuery

\* C3 witness: Bridge, holding read on general memory, asks to write it and
\* is denied.
C3_BridgeWriteDenied ==
    /\ MemDone
    /\ memRequest.sender = "Bridge"
    /\ memRequest.content.operation = PyStr("write")
    /\ memRequest.content.memory_type = PyStr("general")
    /\ MemResponded("error")
    /\ memResponse.content.error = "Access denied"
    /\ memHandler = "none"

\* C4 as stated: for an agent whose scope is not all, a successful read
\* returns nothing read from a stored record older than the agent's scope
\* cutoff.
C4_ReadWithinScope ==
    (MemDone /\ memHandler = "read" /\ MemResponded("success")
        /\ get_agent_scope(memRequest.sender) /= "all")
        => \A at \in memResponse.content.result.sources :
                at >= get_scope_time_filter(memRequest.sender).at

(***************************************************************************)
(* Properties of the switching engine (SpecSwitch).                        *)
(***************************************************************************)

\* The call of evaluate_switch has ended.
SwDone == swPc = "done"

\* C9 as stated: the steps are applied in strict priority order, first match
\* wins: topics are consulted only when the emotional step produced no
\* agent, capabilities only when neither earlier step produced one, and
\* when the first step that produces an agent yields the current agent the
\* result is no switch.
C9_StrictPriorityFirstMatchWins ==
    SwDone =>
        /\ swResult.topic_run => swResult.emotional_agent = PyNone
        /\ swResult.capability_run =>
                (swResult.emotional_agent = PyNone /\ swResult.topic_agent = PyNone)
        /\ swResult.emotional_agent = PyStr(swCurrent) => ~swResult.should_switch
        /\ (swResult.emotional_agent = PyNone
                /\ swResult.topic_agent = PyStr(swCurrent))
            => ~swResult.should_switch

\* C10: evaluate_switch never returns should_switch true with the current
\* agent as the target; a switch names another agent.
C10_NeverSwitchesToCurrentAgent ==
    (SwDone /\ swResult.should_switch) =>
        /\ swResult.recommended_agent.t = "str"
        /\ swResult.recommended_agent.v /= swCurrent

\* C10 witness: the emotional step computes the current agent, no other
\* signal is given, and the result is no switch.
C10_CurrentAgentComputedNoSwitch ==
    /\ SwDone
    /\ swResult.emotional_agent = PyStr(swCurrent)
    /\ swTopics = <<>>
    /\ swCaps = <<>>
    /\ ~swResult.should_switch
    /\ swResult.recommended_agent = PyNone

\* The number of the capabilities of a list that the agent of row i of the
\* capability table holds.
TableTally(i, capabilities_needed) ==
    Cardinality({k \in 1..Len(capabilities_needed) :
        \E j \in 1..Len(AGENT_CAPABILITIES[i][2]) :
            AGENT_CAPABILITIES[i][2][j] = capabilities_needed[k]})

\* The row of the capability table that holds the highest tally and comes
\* first in the table's definition order.
FirstTableRowOfHighestTally(capabilities_needed) ==
    CHOOSE i \in 1..Len(AGENT_CAPABILITIES) :
        /\ \A j \in 1..Len(AGENT_CAPABILITIES) :
                TableTally(j, capabilities_needed) <= TableTally(i, capabilities_needed)
        /\ \A j \in 1..(i - 1) :
                TableTally(j, capabilities_needed) < TableTally(i, capabilities_needed)

\* C11 as stated: when the capability step runs and some agent holds a
\* required capability, the agent it computes is the agent of the highest
\* tally that comes first in the capability table's definition order,
\* whatever the order of the required-capability list.
C11_TieBrokenByTableOrder ==
    (SwDone /\ swResult.capability_run /\ swResult.capability_agent /= PyNone)
        => swResult.capability_agent =
                PyStr(AGENT_CAPABILITIES[FirstTableRowOfHighestTally(swCaps)][1])

(***************************************************************************)
(* Properties of the context window manager (SpecContext).                 *)
(***************************************************************************)

\* The call of fit_to_context_window has ended.
CtxDone == ctxPc = "done"

\* The number of places of a list that hold the message m.
Occurrences(list, m) == Cardinality({k \in 1..Len(list) : list[k] = m})

\* C12: when the estimated token total of the input is at most the
\* effective limit, fit_to_context_window returns the input list itself,
\* whatever include_system_prompt and important_indices are.
C12_WithinBudgetReturnedUnchanged ==
    (CtxDone /\ estimate_messages_tokens(ctxMessages) <= ctxManager.effective_limit)
        => ctxResult.returned = ctxMessages

\* C12 witness: a list within budget that holds a system message and an
\* important message is returned as it is while system prompts are not
\* asked for.
C12_SystemKeptWithinBudget ==
    /\ CtxDone
    /\ estimate_messages_tokens(ctxMessages) <= ctxManager.effective_limit
    /\ Len(ctxMessages) = 2
    /\ ctxMessages[2].role = ContextText.system
    /\ ~ctxInclude
    /\ ctxImportant = <<0>>
    /\ ctxResult.returned = ctxMessages

\* C13 as stated: the list fit_to_context_window returns has an estimated
\* token total of at most the effective limit, on every path.
C13_ReturnedFitsWindow ==
    CtxDone =>
        estimate_messages_tokens(ctxResult.returned) <= ctxManager.effective_limit

\* C14: when the reconstructed list still exceeds the effective limit, the
\* list returned is the system messages of the reconstructed list, then one
\* system message whose content begins "Earlier conversation summary:",
\* then the last min(4, N) messages of the reconstructed list.
C14_SummaryFallbackShape ==
    (CtxDone /\ ctxResult.path /= "as_is"
        /\ estimate_messages_tokens(ctxResult.original_order)
                > ctxManager.effective_limit)
        => LET order == ctxResult.original_order
               N == Len(order)
               systems == SelectSeq(order, LAMBDA m : m.role = ContextText.system)
               kept == IF N < 4 THEN N ELSE 4
               returned == ctxResult.returned
               summary == returned[Len(systems) + 1]
               prefix == SubSeq(ContextText.earlier, 1, Len(ContextText.earlier) - 1)
           IN  /\ Len(returned) = Len(systems) + 1 + kept
               /\ SubSeq(returned, 1, Len(systems)) = systems
               /\ summary.role = ContextText.system
               /\ SubSeq(summary.content, 1, Len(prefix)) = prefix
               /\ SubSeq(returned, Len(systems) + 2, Len(returned))
                    = SubSeq(order, N - kept + 1, N)

\* C14 witness: a reconstructed list of five messages, a system message
\* among them, exceeds the limit and the summary fallback is returned.
C14_FiveMessagesSummarized ==
    /\ CtxDone
    /\ ctxResult.path = "summary"
    /\ Len(ctxResult.original_order) = 5
    /\ \E k \in 1..5 : ctxResult.original_order[k].role = ContextText.system
    /\ Len(ctxResult.returned) >= 6

\* C20 as stated: on the trimming path, once a message of the newest-first
\* interleaved order does not fit, no user or assistant message later in
\* that order is in the result: the result holds each user or assistant
\* message only as often as it is important or was added before the stop.
C20_NothingAfterFirstMisfit ==
    (CtxDone /\ ctxResult.path = "trimmed"
        /\ Len(ctxResult.paired_added) < Len(ctxResult.paired_messages))
        => \A k \in 1..Len(ctxResult.paired_messages) :
            LET m == ctxResult.paired_messages[k]
                important == Cardinality({i \in 1..Len(ctxMessages) :
                                /\ ctxMessages[i] = m
                                /\ \E j \in 1..Len(ctxImportant) :
                                        ctxImportant[j] = i - 1})
            IN  Occurrences(ctxResult.returned, m)
                    <= important + Occurrences(ctxResult.paired_added, m)

(***************************************************************************)
(* Further properties of the memory access manager (SpecMemory).           *)
(***************************************************************************)

\* content.get(key) of the request: a key left out reads as None.
MemOperation ==
    IF memRequest.content.operation.t = "absent"
    THEN PyNone ELSE memRequest.content.operation

MemMemoryType ==
    IF memRequest.content.memory_type.t = "absent"
    THEN PyNone ELSE memRequest.content.memory_type

MemPath ==
    IF memRequest.content.path.t = "absent"
    THEN PathNone ELSE memRequest.content.path

\* The request carries operation, memory type and path.
MemCarriesAll ==
    Truthy(MemOperation) /\ Truthy(MemMemoryType) /\ PathTruthy(MemPath)

\* The request's memory type is a key of the alias table.
MemTypeKnown ==
    /\ MemMemoryType.t = "str"
    /\ Lower(MemMemoryType.v) \in DOMAIN type_map

C16_ValidationOrder ==
    (MemDone /\ memRequest.type = "memory_access") =>
        /\ ~MemCarriesAll =>
            /\ MemResponded("error")
            /\ memResponse.content.error = "missing required fields"
            /\ memHandler = "none"
        /\ (MemCarriesAll /\ ~MemTypeKnown) =>
            /\ MemResponded("error")
            /\ memResponse.content.error = "Unknown memory type"
            /\ memHandler = "none"

\* The scope cutoffs of the specification, in hours before the call.
ScopeCutoff(scope) ==
    CASE scope = "current_session" -> 0 - 24
      [] scope = "recent" -> 0 - 30 * 24
      [] scope = "historical" -> 0 - 365 * 24
      [] OTHER -> 0

C19_GeneralReadNeverRaises ==
    (memPc = "awaiting" /\ memQuery.kind = "general")
        => ~general_result(storSnapshot, MemPath).raised

EmotionAgent(emotion) ==
    CASE emotion \in {"distress", "anxiety", "grief"} -> "Therapist"
      [] emotion = "anger" -> "Mediator"
      [] emotion = "confusion" -> "Teacher"
      [] emotion = "joy" -> "Friend"

\* The emotion is in the threshold table and the intensity is at least its
\* threshold.
Clears(emotion, intensity) ==
    /\ emotion \in DOMAIN EMOTIONAL_THRESHOLDS
    /\ intensity >= EMOTIONAL_THRESHOLDS[emotion]

\* C17: the emotional step returns the agent of the primary emotion when it
\* clears its threshold (equality included), otherwise the agent of the
\* first secondary emotion, in the given order, that clears its own
\* threshold, otherwise none; primary distress at 0.75 with current agent
\* EchoMind yields a switch to Therapist.
C17_EmotionalStep ==
    (SwDone /\ swResult.emotional_run) =>
        LET pairs == Flatten(swEmotional.secondary)
            clearing == {k \in 1..Len(pairs) : Clears(pairs[k][1], pairs[k][2])}
            first == CHOOSE k \in clearing : \A j \in clearing : k <= j
        IN  /\ swResult.emotional_agent =
                IF Clears(swEmotional.primary, swEmotional.intensity)
                THEN PyStr(EmotionAgent(swEmotional.primary))
                ELSE IF clearing /= {}
                THEN PyStr(EmotionAgent(pairs[first][1]))
                ELSE PyNone
            /\ (swEmotional.primary = "distress" /\ swEmotional.intensity = 75
                    /\ swCurrent = "EchoMind")
                => /\ swResult.should_switch
                   /\ swResult.recommended_agent = PyStr("Therapist")
                   /\ swResult.reason = PyStr("emotional")

\* C17 witness: a primary emotion exactly at its threshold is taken.
C17_ThresholdEqualityTaken ==
    /\ SwDone
    /\ swEmotional.given
    /\ swEmotional.primary = "distress"
    /\ swEmotional.intensity = 70
    /\ swResult.emotional_agent = PyStr("Therapist")

(***************************************************************************)
(* Further properties of the context window manager (SpecContext).         *)
(***************************************************************************)

RECURSIVE IsSubsequence(_, _)
\* The list a can be had from the list b by leaving messages out.
IsSubsequence(a, b) ==
    IF a = <<>> THEN TRUE
    ELSE IF b = <<>> THEN FALSE
    ELSE IF Head(a) = Head(b) THEN IsSubsequence(Tail(a), Tail(b))
    ELSE IsSubsequence(a, Tail(b))

\* C21 as stated: on the trimming path the list returned is a subsequence
\* of the input, wherever the system and important messages sit.
C21_TrimmedIsSubsequence ==
    (CtxDone /\ ctxResult.path = "trimmed")
        => IsSubsequence(ctxResult.returned, ctxMessages)

\* The 1-based places of the input that important_indices designates and
\* that hold a message of a role other than system.
CtxImportantNonSystem ==
    {i \in 1..Len(ctxMessages) :
        /\ \E j \in 1..Len(ctxImportant) : ctxImportant[j] = i - 1
        /\ ctxMessages[i].role /= ContextText.system}

\* C22 as stated: in the summary fallback no non-system message that
\* important_indices designates is in the list returned.
C22_ImportantLostInSummary ==
    (CtxDone /\ ctxResult.path = "summary")
        => \A i \in CtxImportantNonSystem :
                Occurrences(ctxResult.returned, ctxMessages[i]) = 0

\* C22 amended: in the summary fallback a non-system message that
\* important_indices designates is in the list returned exactly as often as
\* it is among the last min(4, N) messages of the reconstructed list, and
\* so is lost only when it is not among them.
C22_ImportantKeptOnlyAmongLastFour ==
    (CtxDone /\ ctxResult.path = "summary")
        => \A i \in CtxImportantNonSystem :
            LET order == ctxResult.original_order
                N == Len(order)
                kept == IF N < 4 THEN N ELSE 4
            IN  Occurrences(ctxResult.returned, ctxMessages[i])
                    = Occurrences(SubSeq(order, N - kept + 1, N), ctxMessages[i])

\* C22 witness: the summary fallback is taken over a reconstructed list of
\* five messages whose first, an important user message, is not returned.
C22_ImportantFirstOfFiveLost ==
    /\ CtxDone
    /\ ctxResult.path = "summary"
    /\ Len(ctxResult.original_order) = 5
    /\ \E i \in CtxImportantNonSystem :
        /\ ctxResult.original_order[1] = ctxMessages[i]
        /\ Occurrences(ctxResult.returned, ctxMessages[i]) = 0

\* C26 as stated: the summary message left aside, the list returned holds
\* no message more often than the input does, on every path.
C26_ReturnedSubMultiset ==
    CtxDone =>
        \A k \in 1..Len(ctxResult.returned) :
            LET m == ctxResult.returned[k]
                summary == /\ ctxResult.path = "summary"
                           /\ m.role = ContextText.system
                           /\ Len(m.content) >= Len(ContextText.earlier)
                           /\ SubSeq(m.content, 1, Len(ContextText.earlier))
                                = ContextText.earlier
            IN  summary \/ Occurrences(ctxResult.returned, m)
                                <= Occurrences(ctxMessages, m)

\* C24 as stated: every constructed manager has effective limit = maximum
\* tokens - buffer tokens and that limit is at least 0, and a maximum of 0
\* given to the constructor is the manager's maximum.
C24_EffectiveLimitNeverNegative ==
    /\ ctxManager.effective_limit = ctxManager.max_tokens - ctxManager.buffer_tokens
    /\ ctxManager.effective_limit >= 0
    /\ ctxArgs.max_tokens = PyIntOf(0) => ctxManager.max_tokens = 0

(***************************************************************************)
(* Properties of prioritize_context (SpecPrioritize).                      *)
(***************************************************************************)

\* The call of prioritize_context has ended.
PriDone == priPc = "done"

\* The estimated cost of an item and of a list of items.
PriCost(item) == estimate_tokens(json_dumps(item))

RECURSIVE PriTotal(_)
PriTotal(items) ==
    IF items = <<>> THEN 0 ELSE PriCost(Head(items)) + PriTotal(Tail(items))

\* The item a sorts at or after the item b in the descending order of the
\* specification: by (priority, timestamp) when a priority function is
\* given, by timestamp alone otherwise, a missing timestamp being older
\* than every timestamp.
PriNotAbove(a, b) ==
    LET older(x, y) ==
            \/ x.timestamp.t = "none"
            \/ y.timestamp.t /= "none" /\ ~str_lt(y.timestamp.v, x.timestamp.v)
    IN  IF priFn = "none"
        THEN older(a, b)
        ELSE \/ a.priority < b.priority
             \/ a.priority = b.priority /\ older(a, b)

C25_RequestLeftUnchanged ==
    MemDone => memContent = memRequest.content

\* The request is a read built by create_memory_request without a filters
\* argument.
MemDefaultRead ==
    \E sender \in MemSenders, memory_type \in DOMAIN type_map, p \in MemPaths :
        /\ p.t = "str"
        /\ memRequest = create_memory_request(sender, "read", memory_type, p.v,
                                              FiltersNone)

\* C27 as stated: a call for such a request from a sender check_access lets
\* read the category ends, unless the storage collaborator fails, in a
\* status-success response.
C27_DefaultReadSucceeds ==
    [][((MemReceive \/ MemStorageReturns) /\ memPc' = "done")
        => ((MemDefaultRead /\ MemAccessGranted) => MemResponded("success"))']_vars

(***************************************************************************)
(* Properties of the rate limiter (SpecRate).                              *)
(***************************************************************************)

RECURSIVE AllowedBetween(_, _, _)
\* The number of calls answered allowed for a key at the seconds from..to.
AllowedBetween(client_key, from, to) ==
    IF from > to THEN 0
    ELSE rlAllowed[client_key][from] + AllowedBetween(client_key, from + 1, to)

\* C29: for every client key and every span of window_seconds, its two end
\* seconds included, at most limit calls were answered allowed; the
\* requests dict holds an entry only for a call answered allowed, so a
\* denied call is not recorded; and the remaining reported is not negative.
C29_AtMostLimitPerWindow ==
    /\ \A client_key \in ClientKeys : \A t \in 0..MaxTime :
        LET to == IF t + rlLimiter.window_seconds > MaxTime
                  THEN MaxTime ELSE t + rlLimiter.window_seconds
        IN  AllowedBetween(client_key, t, to) <= rlLimiter.limit
    /\ \A client_key \in DOMAIN rlRequests : \A t \in 0..MaxTime :
        Cardinality({k \in 1..Len(rlRequests[client_key]) :
                        rlRequests[client_key][k][1] = t})
            <= rlAllowed[client_key][t]
    /\ rlResult.info.remaining >= 0

\* C29 witness: a key that used up its limit at second 0 is allowed again
\* once the window has passed, its old entries cleaned away.
C29_DeniedThenAllowedAgain ==
    /\ rlResult.client_key = "ip:a"
    /\ rlResult.allowed
    /\ rlNow > rlLimiter.window_seconds
    /\ rlAllowed["ip:a"][0] = rlLimiter.limit
    /\ rlAllowed["ip:a"][rlNow] = 1
    /\ Len(rlRequests["ip:a"]) = 1

(***************************************************************************)
(* Properties of the API key store (SpecKeys).                             *)
(***************************************************************************)

\* C30 as stated: a validate_api_key call for a key that is stored,
\* active, not expired and holds the required scopes returns the key's
\* info, whatever validate_api_key, get_api_key_info and get_user_api_keys
\* calls went before.
C30_ValidKeyKeepsValidating ==
    (/\ keyResult.fn = "validate"
     /\ key_index(keyStore, keyResult.api_key) /= 0)
    => LET key_data == keyStore[key_index(keyStore, keyResult.api_key)][2]
       IN  (/\ key_data.is_active
            /\ key_data.expires_at.t = "none" \/ key_data.expires_at.day >= keyNow
            /\ keyResult.required_scopes \subseteq key_data.scopes)
           => /\ keyResult.outcome = "returned"
              /\ keyResult.value = <<key_data>>

(***************************************************************************)
(* Properties of concurrent memory requests (SpecConcurrent).              *)
(***************************************************************************)

\* What check_access answers to the request of a message handled alone:
\* "none" when the handler does not reach the check.
AloneDecision(message) ==
    IF ~reaches_check_access(message)
    THEN "none"
    ELSE IF check_access(
                message.sender,
                type_map[Lower(message.content.memory_type.v)],
                message.content.operation.v)
    THEN "granted"
    ELSE "denied"

\* C28: under any interleaving of concurrent handle_memory_request calls the
\* policy tables (access levels and scopes) hold what they held at the
\* start, and each call in flight got the decision its request gets alone:
\* a denied call entered no handler and, once ended, returned the
\* "Access denied" response that the handler run alone returns.
C28_TablesFixedDecisionsAsAlone ==
    /\ concPolicies = DEFAULT_POLICIES
    /\ concScopes = DEFAULT_SCOPES
    /\ \A c \in Calls :
        concCalls[c].pc /= "idle" =>
            /\ concCalls[c].granted = AloneDecision(concCalls[c].request)
            /\ concCalls[c].granted = "denied" =>
                /\ concCalls[c].step.handler = "none"
                /\ concCalls[c].step =
                       handle_memory_request_start(concCalls[c].request)
                /\ concCalls[c].step.response.content.error = "Access denied"
            /\ concCalls[c].granted = "granted" =>
                concCalls[c].step.pc = "awaiting"
                \/ concCalls[c].step.response = NoMessage
                \/ concCalls[c].step.response.content.error /= "Access denied"

\* C28 witness: one call is waiting for storage after an unlisted agent's
\* read was granted, and another call has ended with a denied request.
C28_GrantedWaitingWhileDenied ==
    \E c, d \in Calls :
        /\ c /= d
        /\ concCalls[c].pc = "awaiting"
        /\ concCalls[c].granted = "granted"
        /\ concCalls[c].request.sender = "Guest"
        /\ concCalls[d].pc = "done"
        /\ concCalls[d].granted = "denied"

====
